---- MODULE Spec2Model ----
(***************************************************************************)
(* Credential lifecycle of clippy (src/src/lib/auth.ts): the cross-process *)
(* browser lock, the token extractor, the token cache and resolveAuth.     *)
(*                                                                         *)
(* Every process slot of Procs runs one CLI invocation at a time.  One     *)
(* action is the synchronous code between two awaits of the source.  Time  *)
(* moves in Tick only, and every instant the program stores (startTime,    *)
(* the text of the lock marker, expiresAt) is kept as its distance from    *)
(* Date.now(), so that runs of any duration stay within finitely many      *)
(* states.  The 500 ms sleeps of the polling loops are shorter than a Tick, *)
(* so a sleeping process wakes at any moment.                              *)
(***************************************************************************)
EXTENDS Integers, Sequences, FiniteSets, TLC

\* ---- bounds of the model ------------------------------------------------
Procs == {1, 2}

TickMs == 10000

\* ---- constants of the program -------------------------------------------
LOCK_TIMEOUT == 60000

HeadlessLockTimeout == 5000

AttendedLockTimeout == 30000

DefaultExtractTimeout == 15000

BackgroundExtractTimeout == 10000

VisibleExtractTimeout == 60000

HeadlessGraphWait == 3000

VisibleGraphWait == 5000

RefreshExtractTimeout == 30000

REFRESH_THRESHOLD == 5 * 60 * 1000

\* a remaining lifetime of the cache is kept as one of three values, one for
\* each answer of the tests in getCachedToken: 0 (expiresAt <= now), SoonLife
\* (any lifetime below REFRESH_THRESHOLD) and LifeCap (the threshold or more)
LifeCap == REFRESH_THRESHOLD

SoonLife == 60000

FallbackLifetime == 55 * 60 * 1000

\* ---- values --------------------------------------------------------------
NoToken == "none"

\* tokens by where they come from: --token flag, CLIPPY_TOKEN, cache file,
\* Authorization headers seen by the browser (outlook host / graph host)
CliTokens == {"cli"}

EnvTokens == {"env"}

OutlookTokens == {"owa"}

GraphTokens == {"graph"}

\* a token as getJwtExpiration sees it: the number of segments between dots
\* and what the middle segment decodes to.  payload: "garbage" (not the
\* base64url of a JSON text), "null", "scalar" (a JSON number, string or
\* boolean), "array" or "object"; exp, for an object: "absent", "number"
\* (seconds), "text" (a string that is not a number) or "true"
Jwt(n, pl, ex, secs) == [parts |-> n, payload |-> pl, exp |-> ex, seconds |-> secs]

\* the exp claim (seconds after the capture) of the token Outlook hands out
OutlookExp == 4000

\* exp claims of two more tokens a long session sees: one about to expire,
\* one that expired before it was captured
BriefExp == 60

LapsedExp == -1

\* the tokens of the model: the Outlook tokens are JWTs with an exp claim, the
\* others are JWTs without
JwtOf == [t \in {"cli", "env", "old", "owa", "graph", "brief", "lapsed", "opaque"} |->
            CASE t = "owa" -> Jwt(3, "object", "number", OutlookExp)
              [] t = "brief" -> Jwt(3, "object", "number", BriefExp)
              [] t = "lapsed" -> Jwt(3, "object", "number", LapsedExp)
              [] t = "opaque" -> Jwt(1, "garbage", "absent", 0)
              [] OTHER -> Jwt(3, "object", "absent", 0)]

\* the tokens a keepalive session captures over its life
SessionTokens == {"owa", "brief", "opaque"}

\* keepalive.ts:9  --interval: minutes between two reloads (any integer >= 1)
IntervalMinutes == 30

\* the cycles of the keepalive loop over which the age of lastToken is counted
MaxCycles == 2

\* the tokens getJwtExpiration is tried on
MaxParts == 4

MaxSeconds == 9

Jwts ==
  { t \in [parts : 1..MaxParts,
           payload : {"garbage", "null", "scalar", "array", "object"},
           exp : {"absent", "number", "text", "true"},
           seconds : 0..MaxSeconds] :
      /\ t.payload # "object" => t.exp = "absent"
      /\ t.exp # "number" => t.seconds = 0 }

\* number | null, the values of getJwtExpiration; NaN is a number
Null == [kind |-> "null", ms |-> 0]

NaN == [kind |-> "nan", ms |-> 0]

Num(n) == [kind |-> "number", ms |-> n]

\* getJwtExpiration has not returned
Undecoded == [kind |-> "pending", ms |-> 0]

NoLock == [exists |-> FALSE, data |-> <<>>, owner |-> 0, age |-> 0, orphan |-> FALSE]

\* the cache file; expiresIn is expiresAt - Date.now(), 0 once it is reached
\* kind: "absent", "corrupt" (not a JSON text), "empty" (truncated by a write
\* in progress) or "json"; json: the members of the JSON object in the file;
\* by, not on disk: the process whose write truncated or filled the file
NoCache == [kind |-> "absent", json |-> <<>>, by |-> 0]

CorruptCache == [kind |-> "corrupt", json |-> <<>>, by |-> 0]

EmptyCache == [kind |-> "empty", json |-> <<>>, by |-> 0]

\* what is left in `writing` of a setCachedToken whose mkdir or writeFile threw
FailedWrite == [kind |-> "failed", json |-> <<>>, by |-> 0]

\* a serialisation of the CachedToken that leaves the Graph token out
JSONstringifyPrimaryOnly(obj) ==
  [k \in {"token", "expiresIn"} |-> obj[k]]

\* JSON.stringify of a CachedToken: a member whose value is undefined is left
\* out (auth.ts:131); the text is kept as its members, a function from names
JSONstringify(obj) ==
  [k \in {n \in DOMAIN obj : n = "expiresIn" \/ obj[n] # NoToken} |-> obj[k]]

\* JSON.parse(data) as CachedToken, then the reads of its properties: a
\* missing member reads as undefined (auth.ts:102-110, 363-382).  expiresIn
\* is in the result only when the text has a numeric expiresAt.
JSONparse(text) ==
  [k \in {"token", "graphToken"} \cup (DOMAIN text \cap {"expiresIn"}) |->
     IF k \in DOMAIN text THEN text[k] ELSE NoToken]

\* the in-memory CachedToken of auth.ts:126-130
CachedToken(tok, gtok, exp) == [token |-> tok, graphToken |-> gtok, expiresIn |-> exp]

CacheFile(obj) == [kind |-> "json", json |-> JSONstringify(obj), by |-> 0]

NoResult == [success |-> FALSE, token |-> NoToken, graphToken |-> NoToken, error |-> "none"]

Failure(msg) == [success |-> FALSE, token |-> NoToken, graphToken |-> NoToken, error |-> msg]

\* the promise was rejected: an exception crossed the function's boundary
Raised == [success |-> FALSE, token |-> NoToken, graphToken |-> NoToken, error |-> "raised"]

Success(tok, gtok) == [success |-> TRUE, token |-> tok, graphToken |-> gtok, error |-> "none"]

VARIABLES
  lockFile,     \* ~/.config/clippy/browser.lock: exists, data = <<Date.now() - text>>
                \* (<<>> for an empty file); and, not on disk: who created it,
                \* whether its creator crashed (orphan) and, for an empty
                \* file, how long ago (age)
  reclaimed,    \* some acquireLock has unlinked a marker it judged stale
  cache,        \* ~/.config/clippy/token-cache.json
  pc,           \* where each process is suspended
  cliToken,     \* options.token of the running resolveAuth
  envToken,     \* process.env.CLIPPY_TOKEN
  interactive,  \* options.interactive
  caller,       \* who awaits the running extraction: "resolve" (auth.ts:388),
                \* "background" (auth.ts:368), "refresh" (part_005:244) or
                \* "direct" (another caller of the export); "keepalive" in
                \* startKeepaliveSession
  headless,     \* headless argument of the running tryExtractToken
  timeout,      \* timeout argument of the running tryExtractToken
  elapsed,      \* Date.now() - startTime of the running polling loop
  markerAtStart,\* what the marker was when the running acquireLock began
  beaten,       \* another process created the marker during the running acquireLock
  holds,        \* the process has a LockHandle it has not released
  context,      \* browser context of the attempt: "none", "open", "closed"
  captured,     \* capturedToken
  capturedGraph,\* capturedGraphToken
  cached,       \* record returned by getCachedToken with its needsRefresh
  writing,      \* file content setCachedToken is writing, then has written
                \* (NoCache when there is none, FailedWrite when it failed)
  tryResult,    \* value returned by the last tryExtractToken
  attempts,     \* what the tryExtractToken calls of the invocation have done:
                \* profile, launched: by the running call; contended: a call
                \* of the invocation returned the contention failure; first:
                \* the error of the unattended call the attended one follows;
                \* deadline: where the timeout of the running call ran out
                \* with no token captured ("navigation", "wait"); seen,
                \* seenGraph: the Bearer token of the first request of the
                \* running call to each host; latest, latestGraph: that of
                \* the last one; unlink: how the unlink of the latest
                \* release() of the call's Handle ended; created: the
                \* open(LOCK_FILE, 'wx') of the running call has succeeded
  consulted,    \* the sources resolveAuth has consulted, in order
  result,       \* value returned by resolveAuth; for the refresh command, how
                \* it ended: success for exit status 0, a failure for status 1
  accepted,     \* the token validateSession last answered true for, in this invocation
  observed,     \* what the cache read of this invocation found in the file
  jwt,          \* a token handed to getJwtExpiration
  decoded,      \* what getJwtExpiration returned for it
  keep          \* the keepalive session: last, lastGraph: the Bearer tokens of
                \* the latest requests to each host; age: how long lastToken
                \* has held its value; page: what the latest reload step did

shared == <<lockFile, reclaimed, cache>>

options == <<cliToken, envToken, interactive>>

lockVars == <<elapsed, markerAtStart, beaten, holds>>

browserVars == <<context, captured, capturedGraph>>

extractVars == <<caller, headless, timeout, tryResult, attempts>>

resolveVars == <<cached, writing, consulted, result, accepted, observed>>

decodeVars == <<jwt, decoded>>

vars == <<shared, pc, options, decodeVars, keep, lockVars, browserVars, extractVars, resolveVars>>


\* ---- helpers --------------------------------------------------------------
Set(f, p, v) == [f EXCEPT ![p] = v]

\* a process that runs no keepalive session
NoKeep == [last |-> NoToken, lastGraph |-> NoToken, age |-> 0, page |-> "none"]

NoAttempt == [profile |-> FALSE, launched |-> FALSE, contended |-> FALSE, first |-> "none",
              deadline |-> "none", seen |-> NoToken, seenGraph |-> NoToken,
              latest |-> NoToken, latestGraph |-> NoToken, unlink |-> "none",
              created |-> FALSE]

\* the attempts record with one field changed
Mark(p, field, v) == Set(attempts, p, [attempts[p] EXCEPT ![field] = v])

\* the consulted log with the outcome of its latest entry settled
Settle(p, how) ==
  Set(consulted, p, [consulted[p] EXCEPT ![Len(consulted[p])] = [@ EXCEPT !.outcome = how]])

\* auth.ts:23-24  lockTime = parseInt(lockData, 10); Date.now() - lockTime > LOCK_TIMEOUT.
\* An empty file parses to NaN, and every comparison with NaN is false.
IsStale(file) ==
  /\ file.exists
  /\ file.data # <<>>
  /\ file.data[1] > LOCK_TIMEOUT

\* the marker as an acquireLock that begins finds it: "absent"; "stale", its
\* text is older than LOCK_TIMEOUT; "abandoned", it has no text and its
\* creator crashed longer ago than LOCK_TIMEOUT; else "held"
MarkerOf(file) ==
  CASE ~file.exists -> "absent"
    [] IsStale(file) -> "stale"
    [] file.exists /\ file.data = <<>> /\ file.orphan /\ file.age > LOCK_TIMEOUT -> "abandoned"
    [] OTHER -> "held"

\* auth.ts:168  acquireLock(headless ? 5000 : 30000)
LockTimeoutOf(hl) == IF hl THEN HeadlessLockTimeout ELSE AttendedLockTimeout

\* auth.ts:235  graphWaitTime
GraphWaitOf(hl) == IF hl THEN HeadlessGraphWait ELSE VisibleGraphWait

\* a clock that has run for d more milliseconds, kept up to cap
Aged(t, d, cap) == IF t + d > cap THEN cap ELSE t + d

\* auth.ts:88-97  getJwtExpiration.  A token that is not three segments gives
\* null; JSON.parse of garbage throws and null.exp throws, both caught; a
\* scalar or an array has no exp; `payload.exp ? payload.exp * 1000 : null`
\* takes 0 for absent, multiplies a text into NaN and true into 1000
getJwtExpiration(token) ==
  IF token.parts # 3 THEN Null
  ELSE IF token.payload # "object" THEN Null
  ELSE CASE token.exp = "absent" -> Null
         [] token.exp = "number" -> IF token.seconds = 0 THEN Null ELSE Num(token.seconds * 1000)
         [] token.exp = "text" -> NaN
         [] token.exp = "true" -> Num(1000)

\* auth.ts:124  getJwtExpiration(token) || (Date.now() + 55 * 60 * 1000), less
\* Date.now(): null, 0 and NaN give the fallback; the exp claims of the model
\* count from the capture
ExpiresInOf(tok) ==
  LET exp == getJwtExpiration(JwtOf[tok]) IN
  IF exp.kind = "number" /\ exp.ms # 0 THEN exp.ms ELSE FallbackLifetime

\* auth.ts:99-116  getCachedToken; a record with kind "hit" or "miss".  With
\* expiresAt undefined or not a number both comparisons (lines 105, 110) are
\* comparisons with NaN, which are false.
getCachedToken(file) ==
  IF file.kind # "json" THEN [kind |-> "miss", token |-> NoToken, graphToken |-> NoToken, needsRefresh |-> FALSE]
  ELSE LET parsed == JSONparse(file.json) IN
       IF "expiresIn" \in DOMAIN parsed /\ parsed.expiresIn <= 0
         THEN [kind |-> "miss", token |-> NoToken, graphToken |-> NoToken, needsRefresh |-> FALSE]
         ELSE [kind |-> "hit", token |-> parsed.token, graphToken |-> parsed.graphToken,
               needsRefresh |-> "expiresIn" \in DOMAIN parsed
                                  /\ parsed.expiresIn < REFRESH_THRESHOLD]

NoCached == [kind |-> "miss", token |-> NoToken, graphToken |-> NoToken, needsRefresh |-> FALSE]

\* owa-client.ts:472-489  validateSession: true only for a 2xx answer
Responses == {"ok", "unauthorized", "neterror"}

validateSession(resp) == resp = "ok"

InitialCaches ==
  { NoCache, CorruptCache,
    CacheFile(CachedToken("old", NoToken, 0)),
    CacheFile(CachedToken("old", NoToken, SoonLife)),
    CacheFile(CachedToken("old", NoToken, LifeCap)) }

\* JSON objects in the cache file that no setCachedToken wrote: without
\* expiresAt, with an expiresAt that is no number, without token
ForeignCaches ==
  { [kind |-> "json", json |-> [token |-> "old"], by |-> 0],
    [kind |-> "json", json |-> [token |-> "old", expiresAt |-> "never"], by |-> 0],
    CacheFile(CachedToken(NoToken, NoToken, LifeCap)) }

\* the state of a machine on which no command of clippy runs, the cache file
\* being one of `files`
InitFrom(files) ==
  /\ keep = [p \in Procs |-> NoKeep]
  /\ lockFile = NoLock
  /\ reclaimed = FALSE
  /\ cache \in files
  /\ pc = [p \in Procs |-> "idle"]
  /\ cliToken = [p \in Procs |-> NoToken]
  /\ envToken = [p \in Procs |-> NoToken]
  /\ interactive = [p \in Procs |-> FALSE]
  /\ caller = [p \in Procs |-> "resolve"]
  /\ headless = [p \in Procs |-> TRUE]
  /\ timeout = [p \in Procs |-> 0]
  /\ elapsed = [p \in Procs |-> 0]
  /\ markerAtStart = [p \in Procs |-> "absent"]
  /\ beaten = [p \in Procs |-> FALSE]
  /\ holds = [p \in Procs |-> FALSE]
  /\ context = [p \in Procs |-> "none"]
  /\ captured = [p \in Procs |-> NoToken]
  /\ capturedGraph = [p \in Procs |-> NoToken]
  /\ cached = [p \in Procs |-> NoCached]
  /\ writing = [p \in Procs |-> NoCache]
  /\ tryResult = [p \in Procs |-> NoResult]
  /\ attempts = [p \in Procs |-> NoAttempt]
  /\ consulted = [p \in Procs |-> <<>>]
  /\ result = [p \in Procs |-> NoResult]
  /\ accepted = [p \in Procs |-> NoToken]
  /\ observed = [p \in Procs |-> "unread"]

InitAuth == InitFrom(InitialCaches)

Init ==
  /\ InitAuth
  /\ jwt = JwtOf["owa"]
  /\ decoded = Undecoded

\* where Date.now() - startTime of a polling loop is live
ClockPcs == {"acq_read", "acq_unlink", "acq_open", "acq_write", "acq_sleep", "ext_wait",
             "ext_graph"}

\* ages are kept up to the first value beyond the staleness threshold
AgeCap == LOCK_TIMEOUT + TickMs

\* the deadline the running polling loop of p compares its elapsed time with
\* (auth.ts:18, 228, 237); elapsed times are kept up to it
DeadlineOf(p) ==
  CASE pc[p] = "ext_wait" -> timeout[p]
    [] pc[p] = "ext_graph" -> GraphWaitOf(headless[p])
    [] OTHER -> LockTimeoutOf(headless[p])

\* ---- the clock -------------------------------------------------------------
\* TickMs milliseconds pass.  With `fall` the remaining lifetime of the cached
\* record crosses the next threshold below it.
Tick(fall) ==
  /\ lockFile' = IF ~lockFile.exists THEN lockFile
                 ELSE IF lockFile.data # <<>>
                   THEN [lockFile EXCEPT !.data = <<Aged(lockFile.data[1], TickMs, AgeCap)>>]
                 ELSE IF lockFile.orphan
                   THEN [lockFile EXCEPT !.age = Aged(lockFile.age, TickMs, AgeCap)]
                   ELSE lockFile
  /\ fall => (cache.kind = "json" /\ "expiresIn" \in DOMAIN cache.json
                /\ cache.json.expiresIn > 0)
  /\ cache' = IF fall
                THEN [cache EXCEPT !.json.expiresIn = IF @ = LifeCap THEN SoonLife ELSE 0]
                ELSE cache
  /\ elapsed' = [p \in Procs |-> IF pc[p] \in ClockPcs
                                    THEN Aged(elapsed[p], TickMs, DeadlineOf(p))
                                    ELSE elapsed[p]]
  /\ UNCHANGED <<reclaimed, pc, options, decodeVars, keep, markerAtStart, beaten, holds, browserVars,
                 extractVars, resolveVars>>

\* ---- acquireLock (auth.ts:15-63) and the start of tryExtractToken -----------
\* tryExtractToken creating the profile directory (line 182) before line 168
BeginTryProfileFirst(p, hl, to) ==
  /\ headless' = Set(headless, p, hl)
  /\ timeout' = Set(timeout, p, to)
  /\ elapsed' = Set(elapsed, p, 0)
  /\ markerAtStart' = Set(markerAtStart, p, MarkerOf(lockFile))
  /\ context' = Set(context, p, "none")
  /\ captured' = Set(captured, p, NoToken)
  /\ capturedGraph' = Set(capturedGraph, p, NoToken)
  /\ tryResult' = Set(tryResult, p, NoResult)
  /\ attempts' = Set(attempts, p, [NoAttempt EXCEPT !.contended = attempts[p].contended,
                                                   !.first = tryResult[p].error,
                                                   !.profile = TRUE])
  /\ pc' = Set(pc, p, "acq_read")
  /\ beaten' = Set(beaten, p, FALSE)
  /\ UNCHANGED holds

\* auth.ts:163-168 then 16-22: tryExtractToken(hl, to) calls acquireLock, which
\* takes startTime, passes the first loop test (the timeouts are positive) and
\* issues the read of the marker.
BeginTry(p, hl, to) ==
  /\ headless' = Set(headless, p, hl)
  /\ timeout' = Set(timeout, p, to)
  /\ elapsed' = Set(elapsed, p, 0)
  /\ markerAtStart' = Set(markerAtStart, p, MarkerOf(lockFile))
  /\ context' = Set(context, p, "none")
  /\ captured' = Set(captured, p, NoToken)
  /\ capturedGraph' = Set(capturedGraph, p, NoToken)
  /\ tryResult' = Set(tryResult, p, NoResult)
  /\ attempts' = Set(attempts, p, [NoAttempt EXCEPT !.contended = attempts[p].contended,
                                                   !.first = tryResult[p].error])
  /\ pc' = Set(pc, p, "acq_read")
  /\ beaten' = Set(beaten, p, FALSE)
  /\ UNCHANGED holds

\* where a process is inside the polling loop of acquireLock
AcquirePcs == {"acq_read", "acq_unlink", "acq_open", "acq_sleep"}

\* auth.ts:29,54  await setTimeout(500); continue.  The 500 ms of a sleep are
\* below the resolution TickMs of the clocks: a sleep ends at any moment.
LockSleep(p) == pc' = Set(pc, p, "acq_sleep")

\* acquireLock without lines 24-27: a stale marker is waited for like a fresh one
AcqReadNoReclaim(p) ==
  /\ pc[p] = "acq_read"
  /\ IF ~lockFile.exists
       THEN pc' = Set(pc, p, "acq_open")
       ELSE LockSleep(p)
  /\ UNCHANGED <<shared, options, decodeVars, keep, elapsed, markerAtStart, beaten, holds,
                 browserVars, extractVars, resolveVars>>

\* auth.ts:22-34  the read of the marker resolves
AcqRead(p) ==
  /\ pc[p] = "acq_read"
  /\ IF ~lockFile.exists
       THEN pc' = Set(pc, p, "acq_open")
       ELSE IF IsStale(lockFile)
         THEN pc' = Set(pc, p, "acq_unlink")
         ELSE LockSleep(p)
  /\ UNCHANGED <<shared, options, decodeVars, keep, elapsed, markerAtStart, beaten, holds,
                 browserVars, extractVars, resolveVars>>

\* auth.ts:26  unlink of the marker judged stale; ENOENT is swallowed at line 32
AcqUnlink(p) ==
  /\ pc[p] = "acq_unlink"
  /\ lockFile' = NoLock
  /\ reclaimed' = (reclaimed \/ lockFile.exists)
  /\ pc' = Set(pc, p, "acq_open")
  /\ UNCHANGED <<cache, options, decodeVars, keep, lockVars, browserVars,
                 extractVars, resolveVars>>

\* acquireLock opening the marker with 'w' in place of 'wx'
AcqOpenNonExclusive(p) ==
  /\ pc[p] = "acq_open"
  /\ lockFile' = [exists |-> TRUE, data |-> <<>>, owner |-> p,
                  age |-> 0, orphan |-> FALSE]
  /\ attempts' = Mark(p, "created", TRUE)
  /\ beaten' = [q \in Procs |-> beaten[q] \/ (q # p /\ pc[q] \in AcquirePcs)]
  /\ pc' = Set(pc, p, "acq_write")
  /\ UNCHANGED <<reclaimed, cache, options, decodeVars, keep, elapsed, markerAtStart, holds,
                 browserVars, caller, headless, timeout, tryResult, resolveVars>>

\* auth.ts:37-38  mkdir, then open(LOCK_FILE, 'wx'); EEXIST goes to lines 52-55
AcqOpen(p) ==
  /\ pc[p] = "acq_open"
  /\ IF lockFile.exists
       THEN /\ LockSleep(p)
            /\ UNCHANGED <<lockFile, beaten, attempts>>
       ELSE /\ lockFile' = [exists |-> TRUE, data |-> <<>>, owner |-> p,
                             age |-> 0, orphan |-> FALSE]
            /\ attempts' = Mark(p, "created", TRUE)
            /\ beaten' = [q \in Procs |-> beaten[q] \/ (q # p /\ pc[q] \in AcquirePcs)]
            /\ pc' = Set(pc, p, "acq_write")
  /\ UNCHANGED <<reclaimed, cache, options, decodeVars, keep, elapsed, markerAtStart, holds,
                 browserVars, caller, headless, timeout, tryResult, resolveVars>>

\* how fd.write and fd.close of auth.ts:39-40 end
WriteOutcomes == {"ok", "write_error", "close_error"}

\* auth.ts:39-42  the timestamp is written through the descriptor (so into the
\* file this process created, even if the path was unlinked meanwhile), the
\* Handle is returned; auth.ts:176-182 tryExtractToken issues mkdir(userDataDir).
\* auth.ts:51-59  or fd.write throws ("write_error", the file stays empty) or
\* fd.close throws ("close_error"): the error is no EEXIST, so acquireLock
\* sleeps 100 ms and polls again, the marker left where it is
AcqWrite(p, out) ==
  /\ pc[p] = "acq_write"
  /\ lockFile' = IF lockFile.exists /\ lockFile.owner = p /\ out # "write_error"
                   THEN [lockFile EXCEPT !.data = <<0>>, !.age = 0]
                   ELSE lockFile
  /\ holds' = Set(holds, p, out = "ok")
  /\ markerAtStart' = IF out = "ok" THEN Set(markerAtStart, p, "absent") ELSE markerAtStart
  /\ beaten' = IF out = "ok" THEN Set(beaten, p, FALSE) ELSE beaten
  /\ elapsed' = IF out = "ok" THEN Set(elapsed, p, 0) ELSE elapsed
  /\ pc' = Set(pc, p, IF out = "ok" THEN "ext_mkdir" ELSE "acq_sleep")
  /\ UNCHANGED <<reclaimed, cache, options, decodeVars, keep, browserVars, extractVars,
                 resolveVars>>

\* acquireLock with `while (true)` in place of the test of line 18
AcqWakeNoDeadline(p) ==
  /\ pc[p] = "acq_sleep"
  /\ pc' = Set(pc, p, "acq_read")
  /\ UNCHANGED <<shared, options, decodeVars, keep, lockVars, browserVars, extractVars, resolveVars>>

\* auth.ts:18 after a sleep: poll again, or auth.ts:62 return null, upon which
\* tryExtractToken returns the contention failure (auth.ts:169-174)
AcqWake(p) ==
  /\ pc[p] = "acq_sleep"
  /\ IF elapsed[p] < LockTimeoutOf(headless[p])
       THEN /\ pc' = Set(pc, p, "acq_read")
            /\ UNCHANGED <<tryResult, attempts>>
       ELSE /\ pc' = Set(pc, p, "try_ret")
            /\ tryResult' = Set(tryResult, p, Failure("contend"))
            /\ attempts' = Mark(p, "contended", TRUE)
  /\ UNCHANGED <<shared, options, decodeVars, keep, lockVars, browserVars, caller, headless,
                 timeout, resolveVars>>


\* ---- tryExtractToken after the lock (auth.ts:176-265) ------------------------
\* auth.ts:43-49  release(): unlink LOCK_FILE, whatever it holds; errors ignored
release(file) == NoLock

\* auth.ts:182  mkdir(userDataDir) resolves or throws; then launch is issued
ExtMkdir(p, ok) ==
  /\ pc[p] = "ext_mkdir"
  /\ IF ok
       THEN /\ attempts' = Mark(p, "profile", TRUE)
            /\ pc' = Set(pc, p, "ext_launch")
       ELSE /\ pc' = Set(pc, p, "catch_release")
            /\ UNCHANGED attempts
  /\ UNCHANGED <<shared, options, decodeVars, keep, lockVars, browserVars, caller, headless,
                 timeout, tryResult, resolveVars>>

\* auth.ts:185-221  launchPersistentContext, first page, request listener; goto
\* is issued.  "launch_error": launch throws, context stays undefined;
\* "page_error": newPage throws with the context open.
ExtLaunch(p, out) ==
  /\ pc[p] = "ext_launch"
  /\ \/ /\ out = "ok"
        /\ context' = Set(context, p, "open")
        /\ attempts' = Mark(p, "launched", TRUE)
        /\ pc' = Set(pc, p, "ext_goto")
     \/ /\ out = "page_error"
        /\ context' = Set(context, p, "open")
        /\ attempts' = Mark(p, "launched", TRUE)
        /\ pc' = Set(pc, p, "catch_close")
     \/ /\ out = "launch_error"
        /\ pc' = Set(pc, p, "catch_release")
        /\ UNCHANGED <<context, attempts>>
  /\ UNCHANGED <<shared, options, decodeVars, keep, lockVars, captured, capturedGraph, caller,
                 headless, timeout, tryResult, resolveVars>>

\* auth.ts:197-203  the record of the requests with a Bearer header that the
\* listener has been called with: the first and the last token per host
Observed(att, first, last, tok) ==
  [att EXCEPT ![first] = IF @ = NoToken THEN tok ELSE @, ![last] = tok]

\* the listener of startKeepaliveSession (auth.ts:293-295) in tryExtractToken:
\* the token of the latest request to the outlook host replaces the one before
CaptureLatest(p, tok) ==
  /\ pc[p] \in {"ext_goto", "ext_wait", "ext_graph"}
  /\ captured' = Set(captured, p, tok)
  /\ attempts' = Set(attempts, p, Observed(attempts[p], "seen", "latest", tok))
  /\ UNCHANGED <<shared, pc, options, decodeVars, keep, lockVars, context, capturedGraph,
                 caller, headless, timeout, tryResult, resolveVars>>

\* auth.ts:197-215  a request with a Bearer header to the outlook host
Capture(p, tok) ==
  /\ pc[p] \in {"ext_goto", "ext_wait", "ext_graph"}
  /\ captured' = Set(captured, p, IF captured[p] = NoToken THEN tok ELSE captured[p])
  /\ attempts' = Set(attempts, p, Observed(attempts[p], "seen", "latest", tok))
  /\ UNCHANGED <<shared, pc, options, decodeVars, keep, lockVars, context, capturedGraph,
                 caller, headless, timeout, tryResult, resolveVars>>

\* auth.ts:197-215  a request with a Bearer header to the graph host
CaptureGraph(p, tok) ==
  /\ pc[p] \in {"ext_goto", "ext_wait", "ext_graph"}
  /\ capturedGraph' = Set(capturedGraph, p,
        IF capturedGraph[p] = NoToken THEN tok ELSE capturedGraph[p])
  /\ attempts' = Set(attempts, p, Observed(attempts[p], "seenGraph", "latestGraph", tok))
  /\ UNCHANGED <<shared, pc, options, decodeVars, keep, lockVars, context, captured,
                 caller, headless, timeout, tryResult, resolveVars>>

\* auth.ts:233-242  after the capture loop: the graph loop, or context.close()
AfterCapture(p) ==
  IF captured[p] # NoToken /\ capturedGraph[p] = NoToken
    THEN /\ elapsed' = Set(elapsed, p, 0)
         /\ pc' = Set(pc, p, "ext_graph")
    ELSE /\ pc' = Set(pc, p, "ext_close")
         /\ elapsed' = Set(elapsed, p, 0)

\* auth.ts:221-230  goto resolves, and startTime is taken and the capture loop
\* entered, or goto throws: "timeout" when `timeout` ms passed before the page
\* loaded (Playwright's TimeoutError), "error" for any other failure
ExtGoto(p, out) ==
  /\ pc[p] = "ext_goto"
  /\ IF out # "ok"
       THEN /\ pc' = Set(pc, p, "catch_close")
            /\ attempts' = IF out = "timeout" /\ captured[p] = NoToken
                              THEN Mark(p, "deadline", "navigation")
                              ELSE attempts
            /\ UNCHANGED elapsed
       ELSE /\ UNCHANGED attempts
            /\ IF captured[p] = NoToken
                 THEN /\ elapsed' = Set(elapsed, p, 0)
                      /\ pc' = Set(pc, p, "ext_wait")
                 ELSE AfterCapture(p)
  /\ UNCHANGED <<shared, options, decodeVars, keep, markerAtStart, beaten, holds, browserVars,
                 caller, headless, timeout, tryResult, resolveVars>>

\* auth.ts:228-230  waitForTimeout(500) of the capture loop resolves or throws
ExtWait(p, ok) ==
  /\ pc[p] = "ext_wait"
  /\ IF ~ok
       THEN /\ pc' = Set(pc, p, "catch_close")
            /\ elapsed' = Set(elapsed, p, 0)
            /\ UNCHANGED attempts
       ELSE IF captured[p] = NoToken /\ elapsed[p] < timeout[p]
         THEN UNCHANGED <<pc, elapsed, attempts>>
         ELSE /\ AfterCapture(p)
              /\ attempts' = IF captured[p] = NoToken THEN Mark(p, "deadline", "wait")
                              ELSE attempts
  /\ UNCHANGED <<shared, options, decodeVars, keep, markerAtStart, beaten, holds, browserVars,
                 caller, headless, timeout, tryResult, resolveVars>>

\* auth.ts:237-242  waitForTimeout(500) of the graph loop resolves or throws
ExtGraph(p, ok) ==
  /\ pc[p] = "ext_graph"
  /\ IF ~ok
       THEN /\ pc' = Set(pc, p, "catch_close")
            /\ elapsed' = Set(elapsed, p, 0)
       ELSE IF capturedGraph[p] = NoToken /\ elapsed[p] < GraphWaitOf(headless[p])
         THEN UNCHANGED <<pc, elapsed>>
         ELSE /\ pc' = Set(pc, p, "ext_close")
              /\ elapsed' = Set(elapsed, p, 0)
  /\ UNCHANGED <<shared, options, decodeVars, keep, markerAtStart, beaten, holds, browserVars,
                 extractVars, resolveVars>>

\* auth.ts:242  context.close() in the try block resolves or throws
ExtClose(p, ok) ==
  /\ pc[p] = "ext_close"
  /\ IF ok
       THEN /\ context' = Set(context, p, "closed")
            /\ pc' = Set(pc, p, "ext_release")
       ELSE /\ pc' = Set(pc, p, "catch_close")
            /\ UNCHANGED context
  /\ UNCHANGED <<shared, options, decodeVars, keep, lockVars, captured, capturedGraph, extractVars,
                 resolveVars>>

\* auth.ts:243-254  lock.release(), then the result
ExtRelease(p) ==
  /\ pc[p] = "ext_release"
  /\ lockFile' = release(lockFile)
  /\ holds' = Set(holds, p, FALSE)
  /\ tryResult' = Set(tryResult, p,
        IF captured[p] # NoToken
          THEN Success(captured[p], capturedGraph[p])
          ELSE Failure(IF headless[p] THEN "no_session" ELSE "login_timeout"))
  /\ pc' = Set(pc, p, "try_ret")
  /\ UNCHANGED <<reclaimed, cache, options, decodeVars, keep, elapsed,
                 markerAtStart, beaten, browserVars, caller, headless, timeout,
                 attempts, resolveVars>>

\* the catch block with lines 257 and 259 exchanged: lock.release() first, then
\* context.close(), which resolves or throws
CatchCloseReleased(p, ok) ==
  /\ pc[p] = "catch_close"
  /\ lockFile' = release(lockFile)
  /\ holds' = Set(holds, p, FALSE)
  /\ context' = Set(context, p, IF ok THEN "closed" ELSE context[p])
  /\ tryResult' = Set(tryResult, p, IF ok THEN Failure("automation_error") ELSE Raised)
  /\ pc' = Set(pc, p, "try_ret")
  /\ UNCHANGED <<reclaimed, cache, options, decodeVars, keep, elapsed, markerAtStart, beaten,
                 captured, capturedGraph, caller, headless, timeout, attempts, resolveVars>>

\* auth.ts:256-258  context.close() in the catch block resolves or throws; a
\* throw leaves the catch block, so line 259 is not reached
CatchClose(p, ok) ==
  /\ pc[p] = "catch_close"
  /\ IF ok
       THEN /\ context' = Set(context, p, "closed")
            /\ pc' = Set(pc, p, "catch_release")
            /\ UNCHANGED tryResult
       ELSE /\ tryResult' = Set(tryResult, p, Raised)
            /\ pc' = Set(pc, p, "try_ret")
            /\ UNCHANGED context
  /\ UNCHANGED <<shared, options, decodeVars, keep, lockVars, captured, capturedGraph, caller,
                 headless, timeout, attempts, resolveVars>>

\* auth.ts:259-264  lock.release() in the catch block, then the error result
CatchRelease(p) ==
  /\ pc[p] = "catch_release"
  /\ lockFile' = release(lockFile)
  /\ holds' = Set(holds, p, FALSE)
  /\ tryResult' = Set(tryResult, p, Failure("automation_error"))
  /\ pc' = Set(pc, p, "try_ret")
  /\ UNCHANGED <<reclaimed, cache, options, decodeVars, keep, elapsed,
                 markerAtStart, beaten, browserVars, caller, headless, timeout,
                 attempts, resolveVars>>


\* ---- extractTokenViaPlaywright (auth.ts:142-161) and its callers --------------
Finish(p, res, how) ==
  /\ result' = Set(result, p, res)
  /\ consulted' = Settle(p, how)
  /\ pc' = Set(pc, p, "done")

\* the locals of a finished tryExtractToken are gone
Forget(p) ==
  /\ elapsed' = Set(elapsed, p, 0)
  /\ markerAtStart' = Set(markerAtStart, p, "absent")
  /\ beaten' = Set(beaten, p, FALSE)
  /\ holds' = Set(holds, p, FALSE)
  /\ context' = Set(context, p, "none")
  /\ captured' = Set(captured, p, NoToken)
  /\ capturedGraph' = Set(capturedGraph, p, NoToken)
  /\ headless' = Set(headless, p, TRUE)
  /\ timeout' = Set(timeout, p, 0)
  /\ attempts' = Set(attempts, p, [NoAttempt EXCEPT !.contended = attempts[p].contended,
                                                   !.first = attempts[p].first])

\* the refresh of auth.ts:368 awaited by resolveAuth without the catch of line
\* 374: a rejection becomes the caller's result
TryRaisedPropagating(p) ==
  /\ tryResult[p] = Raised
  /\ CASE caller[p] = "resolve" -> Finish(p, Raised, "fail")
       [] caller[p] = "background" -> Finish(p, Raised, "fail")
       [] caller[p] \in {"direct", "refresh"} ->
                                  /\ result' = Set(result, p, Raised)
                                  /\ pc' = Set(pc, p, "done")
                                  /\ UNCHANGED consulted
  /\ Forget(p)
  /\ UNCHANGED <<caller, tryResult, cached, writing, accepted, observed>>

\* tryExtractToken rejected: extractTokenViaPlaywright rejects too; resolveAuth
\* (auth.ts:388) rejects, the background refresh swallows it (auth.ts:374), the
\* refresh command dies of the unhandled rejection
TryRaised(p) ==
  /\ tryResult[p] = Raised
  /\ CASE caller[p] = "resolve" -> Finish(p, Raised, "fail")
       [] caller[p] = "background" -> pc' = Set(pc, p, "done") /\ UNCHANGED <<result, consulted>>
       [] caller[p] \in {"direct", "refresh"} ->
                                  /\ result' = Set(result, p, Raised)
                                  /\ pc' = Set(pc, p, "done")
                                  /\ UNCHANGED consulted
  /\ Forget(p)
  /\ UNCHANGED <<caller, tryResult, cached, writing, accepted, observed>>

\* auth.ts:150-158  the first, headless attempt failed: tryExtractToken(false, 60000)
TryFallback(p) ==
  /\ tryResult[p] # Raised
  /\ ~tryResult[p].success
  /\ headless[p]
  /\ BeginTry(p, FALSE, VisibleExtractTimeout)
  /\ UNCHANGED <<caller, resolveVars>>

\* auth.ts:150-152,160  the result goes to the caller: resolveAuth validates a
\* captured token (auth.ts:389-408), the background refresh stores it
\* (369-373), the refresh command validates it or exits with status 1
\* (part_005:246-250)
TryDeliver(p) ==
  /\ tryResult[p] # Raised
  /\ tryResult[p].success \/ ~headless[p]
  /\ CASE caller[p] = "resolve" ->
              IF tryResult[p].success /\ tryResult[p].token # NoToken
                THEN pc' = Set(pc, p, "validate_extracted") /\ UNCHANGED <<result, consulted>>
                ELSE Finish(p, Failure(tryResult[p].error), "fail")
       [] caller[p] = "background" ->
              /\ IF tryResult[p].success /\ tryResult[p].token # NoToken
                   THEN pc' = Set(pc, p, "set_cache")
                   ELSE pc' = Set(pc, p, "done")
              /\ UNCHANGED <<result, consulted>>
       [] caller[p] = "direct" ->
              /\ result' = Set(result, p, tryResult[p])
              /\ pc' = Set(pc, p, "done")
              /\ UNCHANGED consulted
       [] caller[p] = "refresh" ->
              /\ IF tryResult[p].success /\ tryResult[p].token # NoToken
                   THEN pc' = Set(pc, p, "validate_refreshed") /\ UNCHANGED result
                   ELSE /\ result' = Set(result, p, Failure(tryResult[p].error))
                        /\ pc' = Set(pc, p, "done")
              /\ UNCHANGED consulted
  /\ Forget(p)
  /\ UNCHANGED <<caller, tryResult, cached, writing, accepted, observed>>

ExtractReturn(p) ==
  /\ pc[p] = "try_ret"
  /\ TryRaised(p) \/ TryFallback(p) \/ TryDeliver(p)
  /\ UNCHANGED <<shared, options, decodeVars, keep>>

\* ---- setCachedToken (auth.ts:118-135) ----------------------------------------
\* the caller's continuation once setCachedToken has returned
Stored(p) ==
  CASE caller[p] = "resolve" ->
         Finish(p, Success(tryResult[p].token, tryResult[p].graphToken), "ok")
    [] caller[p] = "keepalive" ->
         pc' = Set(pc, p, "ka_sleep") /\ UNCHANGED <<result, consulted>>
    [] OTHER ->
         pc' = Set(pc, p, "done") /\ UNCHANGED <<result, consulted>>

\* auth.ts:121-131  mkdir resolves, expiresAt is computed, writeFile opens the
\* file (truncating it); a failure is swallowed at line 132
SetCacheOpen(p, ok) ==
  /\ pc[p] = "set_cache"
  /\ IF ok
       THEN /\ writing' = Set(writing, p,
                  CacheFile(CachedToken(tryResult[p].token, tryResult[p].graphToken,
                      IF ExpiresInOf(tryResult[p].token) > LifeCap THEN LifeCap
                      ELSE ExpiresInOf(tryResult[p].token))))
            /\ cache' = [EmptyCache EXCEPT !.by = p]
            /\ pc' = Set(pc, p, "set_cache_write")
            /\ UNCHANGED <<result, consulted>>
       ELSE /\ Stored(p)
            /\ writing' = Set(writing, p, FailedWrite)
            /\ UNCHANGED cache
  /\ UNCHANGED <<lockFile, reclaimed, options, decodeVars, keep, lockVars,
                 browserVars, extractVars, cached, accepted, observed>>

\* auth.ts:131-134  writeFile writes the JSON text, or fails and is swallowed
SetCacheWrite(p, ok) ==
  /\ pc[p] = "set_cache_write"
  /\ cache' = IF ok THEN [writing[p] EXCEPT !.by = p] ELSE cache
  /\ writing' = Set(writing, p, IF ok THEN writing[p] ELSE FailedWrite)
  /\ Stored(p)
  /\ UNCHANGED <<lockFile, reclaimed, options, decodeVars, keep, lockVars,
                 browserVars, extractVars, cached, accepted, observed>>

\* ---- startKeepaliveSession (auth.ts:267-329) ------------------------------------
\* where a keepalive session is suspended: the sleep of line 310, the sleep of
\* line 316, the reload of line 319, the goto of line 323 (and "set_cache",
\* "set_cache_write" inside setCachedToken)
KeepalivePcs == {"keepalive", "ka_sleep", "ka_reload", "ka_goto"}

IntervalMs == IntervalMinutes * 60 * 1000

\* auth.ts:267-305  the session opens its browser context, without the lock,
\* loads the page and enters the loop
KeepaliveStart(p) ==
  /\ pc[p] \in {"idle", "done", "crashed"}
  /\ pc' = Set(pc, p, "keepalive")
  /\ caller' = Set(caller, p, "keepalive")
  /\ context' = Set(context, p, "open")
  /\ captured' = Set(captured, p, NoToken)
  /\ capturedGraph' = Set(capturedGraph, p, NoToken)
  /\ keep' = Set(keep, p, [NoKeep EXCEPT !.page = "loaded"])
  /\ tryResult' = Set(tryResult, p, NoResult)
  /\ attempts' = Set(attempts, p, NoAttempt)
  /\ cliToken' = Set(cliToken, p, NoToken)
  /\ envToken' = Set(envToken, p, NoToken)
  /\ interactive' = Set(interactive, p, FALSE)
  /\ result' = Set(result, p, NoResult)
  /\ consulted' = Set(consulted, p, <<>>)
  /\ cached' = Set(cached, p, NoCached)
  /\ writing' = Set(writing, p, NoCache)
  /\ accepted' = Set(accepted, p, NoToken)
  /\ observed' = Set(observed, p, "unread")
  /\ UNCHANGED <<shared, decodeVars, lockVars, headless, timeout>>

\* the listener keeping the first token of each host, as tryExtractToken does
\* (auth.ts:206, 211)
KeepaliveCaptureFirst(p, tok, gtok) ==
  /\ caller[p] = "keepalive"
  /\ pc[p] \in KeepalivePcs \cup {"set_cache", "set_cache_write"}
  /\ captured' = Set(captured, p, IF captured[p] = NoToken THEN tok ELSE captured[p])
  /\ capturedGraph' = Set(capturedGraph, p,
        IF capturedGraph[p] = NoToken THEN gtok ELSE capturedGraph[p])
  /\ keep' = Set(keep, p, [keep[p] EXCEPT
        !.last = IF tok # NoToken THEN tok ELSE @,
        !.lastGraph = IF gtok # NoToken THEN gtok ELSE @,
        !.age = IF tok # NoToken /\ tok # captured[p] THEN 0 ELSE @])
  /\ UNCHANGED <<shared, pc, options, decodeVars, lockVars, context, extractVars,
                 resolveVars>>

\* auth.ts:285-300  a request with a Bearer header, at any time the page is
\* open: the latest token of each host replaces the one before
KeepaliveCapture(p, tok, gtok) ==
  /\ caller[p] = "keepalive"
  /\ pc[p] \in KeepalivePcs \cup {"set_cache", "set_cache_write"}
  /\ captured' = Set(captured, p, IF tok # NoToken THEN tok ELSE captured[p])
  /\ capturedGraph' = Set(capturedGraph, p, IF gtok # NoToken THEN gtok ELSE capturedGraph[p])
  /\ keep' = Set(keep, p, [keep[p] EXCEPT
        !.last = IF tok # NoToken THEN tok ELSE @,
        !.lastGraph = IF gtok # NoToken THEN gtok ELSE @,
        !.age = IF tok # NoToken /\ tok # captured[p] THEN 0 ELSE @])
  /\ UNCHANGED <<shared, pc, options, decodeVars, lockVars, context, extractVars,
                 resolveVars>>

\* auth.ts:310-316  after the sleep of two seconds: setCachedToken(lastToken,
\* lastGraphToken) when there is a lastToken, else straight to the long sleep
KeepalivePersist(p) ==
  /\ pc[p] = "keepalive"
  /\ IF captured[p] # NoToken
       THEN /\ tryResult' = Set(tryResult, p, Success(captured[p], capturedGraph[p]))
            /\ pc' = Set(pc, p, "set_cache")
       ELSE /\ pc' = Set(pc, p, "ka_sleep")
            /\ UNCHANGED tryResult
  /\ writing' = Set(writing, p, NoCache)
  /\ UNCHANGED <<shared, options, decodeVars, keep, lockVars, browserVars, caller,
                 headless, timeout, attempts, cached, consulted, result, accepted,
                 observed>>

\* auth.ts:316  sleep(intervalMinutes * 60 * 1000) resolves: lastToken is that
\* much older
KeepaliveSleep(p) ==
  /\ pc[p] = "ka_sleep"
  /\ pc' = Set(pc, p, "ka_reload")
  /\ keep' = Set(keep, p, [keep[p] EXCEPT
        !.age = IF captured[p] = NoToken THEN @
                ELSE Aged(@, IntervalMs, MaxCycles * IntervalMs)])
  /\ UNCHANGED <<shared, options, decodeVars, lockVars, browserVars, extractVars,
                 resolveVars>>

\* the loop without the try of lines 322-326: a goto that throws ends the session
KeepaliveGotoFatal(p, ok) ==
  /\ pc[p] = "ka_goto"
  /\ IF ok
       THEN /\ pc' = Set(pc, p, "keepalive")
            /\ UNCHANGED result
       ELSE /\ pc' = Set(pc, p, "done")
            /\ result' = Set(result, p, Raised)
  /\ keep' = Set(keep, p, [keep[p] EXCEPT !.page = IF ok THEN "navigated" ELSE "failed"])
  /\ UNCHANGED <<shared, options, decodeVars, lockVars, browserVars, extractVars,
                 cached, writing, consulted, accepted, observed>>

\* auth.ts:318-320  page.reload resolves or throws
KeepaliveReload(p, ok) ==
  /\ pc[p] = "ka_reload"
  /\ pc' = Set(pc, p, IF ok THEN "keepalive" ELSE "ka_goto")
  /\ keep' = Set(keep, p, [keep[p] EXCEPT !.page = IF ok THEN "reloaded" ELSE @])
  /\ UNCHANGED <<shared, options, decodeVars, lockVars, browserVars, extractVars,
                 resolveVars>>

\* auth.ts:321-327  page.goto resolves or throws; the throw is ignored
KeepaliveGoto(p, ok) ==
  /\ pc[p] = "ka_goto"
  /\ pc' = Set(pc, p, "keepalive")
  /\ keep' = Set(keep, p, [keep[p] EXCEPT !.page = IF ok THEN "navigated" ELSE "failed"])
  /\ UNCHANGED <<shared, options, decodeVars, lockVars, browserVars, extractVars,
                 resolveVars>>

\* ---- resolveAuth (auth.ts:331-416) --------------------------------------------
\* priority 4 without the test of line 387: extraction whatever `interactive` is
Priority4Always(p, log) ==
  /\ consulted' = Set(consulted, p, Append(log, [source |-> "extract", outcome |-> "pending"]))
  /\ caller' = Set(caller, p, "resolve")
  /\ BeginTry(p, TRUE, DefaultExtractTimeout)
  /\ UNCHANGED result

\* auth.ts:386-415  priority 4, entered with the consulted log `log`
Priority4(p, log) ==
  IF interactive[p]
    THEN /\ consulted' = Set(consulted, p, Append(log, [source |-> "extract", outcome |-> "pending"]))
         /\ caller' = Set(caller, p, "resolve")
         /\ BeginTry(p, TRUE, DefaultExtractTimeout)
         /\ UNCHANGED result
    ELSE /\ consulted' = Set(consulted, p, log)
         /\ result' = Set(result, p, Failure("no_token"))
         /\ pc' = Set(pc, p, "done")
         /\ UNCHANGED <<caller, headless, timeout, tryResult, attempts, lockVars, browserVars>>

\* auth.ts:142-148  a command calls the exported extractTokenViaPlaywright with
\* headless true and a timeout, which calls tryExtractToken(true, to)
StartExtract(p, to) ==
  /\ pc[p] \in {"idle", "done", "crashed"}
  /\ cliToken' = Set(cliToken, p, NoToken)
  /\ envToken' = Set(envToken, p, NoToken)
  /\ interactive' = Set(interactive, p, FALSE)
  /\ result' = Set(result, p, NoResult)
  /\ consulted' = Set(consulted, p, <<>>)
  /\ cached' = Set(cached, p, NoCached)
  /\ writing' = Set(writing, p, NoCache)
  /\ caller' = Set(caller, p, "direct")
  /\ holds' = Set(holds, p, FALSE)
  /\ headless' = Set(headless, p, TRUE)
  /\ timeout' = Set(timeout, p, to)
  /\ elapsed' = Set(elapsed, p, 0)
  /\ markerAtStart' = Set(markerAtStart, p, MarkerOf(lockFile))
  /\ beaten' = Set(beaten, p, FALSE)
  /\ context' = Set(context, p, "none")
  /\ captured' = Set(captured, p, NoToken)
  /\ capturedGraph' = Set(capturedGraph, p, NoToken)
  /\ tryResult' = Set(tryResult, p, NoResult)
  /\ attempts' = Set(attempts, p, NoAttempt)
  /\ pc' = Set(pc, p, "acq_read")
  /\ accepted' = Set(accepted, p, NoToken)
  /\ observed' = Set(observed, p, "unread")
  /\ UNCHANGED <<shared, decodeVars, keep>>

\* resolveAuth with the blocks of lines 347-357 and 338-344 exchanged
StartResolveEnvFirst(p, cli, env, inter) ==
  /\ pc[p] \in {"idle", "done", "crashed"}
  /\ cliToken' = Set(cliToken, p, cli)
  /\ envToken' = Set(envToken, p, env)
  /\ interactive' = Set(interactive, p, inter)
  /\ result' = Set(result, p, NoResult)
  /\ attempts' = Set(attempts, p, NoAttempt)
  /\ tryResult' = Set(tryResult, p, NoResult)
  /\ caller' = Set(caller, p, "resolve")
  /\ cached' = Set(cached, p, NoCached)
  /\ writing' = Set(writing, p, NoCache)
  /\ context' = Set(context, p, "none")
  /\ captured' = Set(captured, p, NoToken)
  /\ capturedGraph' = Set(capturedGraph, p, NoToken)
  /\ holds' = Set(holds, p, FALSE)
  /\ markerAtStart' = Set(markerAtStart, p, "absent")
  /\ beaten' = Set(beaten, p, FALSE)
  /\ elapsed' = Set(elapsed, p, 0)
  /\ headless' = Set(headless, p, TRUE)
  /\ timeout' = Set(timeout, p, 0)
  /\ consulted' = Set(consulted, p,
        << [source |-> IF env # NoToken THEN "env"
                       ELSE IF cli # NoToken THEN "explicit" ELSE "cache",
            outcome |-> "pending"] >>)
  /\ pc' = Set(pc, p, IF env # NoToken THEN "validate_env"
                      ELSE IF cli # NoToken THEN "validate_cli" ELSE "read_cache")
  /\ accepted' = Set(accepted, p, NoToken)
  /\ observed' = Set(observed, p, "unread")
  /\ UNCHANGED <<shared, decodeVars, keep>>

\* auth.ts:335-360  a CLI invocation calls resolveAuth({token, interactive})
\* with CLIPPY_TOKEN = env; the first source present is consulted
StartResolve(p, cli, env, inter) ==
  /\ pc[p] \in {"idle", "done", "crashed"}
  /\ cliToken' = Set(cliToken, p, cli)
  /\ envToken' = Set(envToken, p, env)
  /\ interactive' = Set(interactive, p, inter)
  /\ result' = Set(result, p, NoResult)
  /\ attempts' = Set(attempts, p, NoAttempt)
  /\ tryResult' = Set(tryResult, p, NoResult)
  /\ caller' = Set(caller, p, "resolve")
  /\ cached' = Set(cached, p, NoCached)
  /\ writing' = Set(writing, p, NoCache)
  /\ context' = Set(context, p, "none")
  /\ captured' = Set(captured, p, NoToken)
  /\ capturedGraph' = Set(capturedGraph, p, NoToken)
  /\ holds' = Set(holds, p, FALSE)
  /\ markerAtStart' = Set(markerAtStart, p, "absent")
  /\ beaten' = Set(beaten, p, FALSE)
  /\ elapsed' = Set(elapsed, p, 0)
  /\ headless' = Set(headless, p, TRUE)
  /\ timeout' = Set(timeout, p, 0)
  /\ consulted' = Set(consulted, p,
        << [source |-> IF cli # NoToken THEN "explicit"
                       ELSE IF env # NoToken THEN "env" ELSE "cache",
            outcome |-> "pending"] >>)
  /\ pc' = Set(pc, p, IF cli # NoToken THEN "validate_cli"
                      ELSE IF env # NoToken THEN "validate_env" ELSE "read_cache")
  /\ accepted' = Set(accepted, p, NoToken)
  /\ observed' = Set(observed, p, "unread")
  /\ UNCHANGED <<shared, decodeVars, keep>>

\* resolveAuth without the return of lines 342-343: a rejected --token falls
\* through to the cache
ValidateCliFallThrough(p, resp) ==
  /\ pc[p] = "validate_cli"
  /\ IF validateSession(resp)
       THEN Finish(p, Success(cliToken[p], NoToken), "ok")
       ELSE /\ consulted' = Set(consulted, p, Append(Settle(p, "fail")[p],
                  [source |-> "cache", outcome |-> "pending"]))
            /\ pc' = Set(pc, p, "read_cache")
            /\ UNCHANGED result
  /\ accepted' = Set(accepted, p, IF validateSession(resp) THEN cliToken[p] ELSE accepted[p])
  /\ UNCHANGED <<shared, options, decodeVars, keep, lockVars, browserVars, extractVars, cached, writing, observed>>

\* resolveAuth with a setCachedToken(cliToken) before the return of line 341
ValidateCliCaching(p, resp) ==
  /\ pc[p] = "validate_cli"
  /\ IF validateSession(resp)
       THEN /\ Finish(p, Success(cliToken[p], NoToken), "ok")
            /\ cache' = [CacheFile(CachedToken(cliToken[p], NoToken, LifeCap)) EXCEPT !.by = p]
       ELSE /\ Finish(p, Failure("invalid_cli_token"), "fail")
            /\ UNCHANGED cache
  /\ accepted' = Set(accepted, p, IF validateSession(resp) THEN cliToken[p] ELSE accepted[p])
  /\ UNCHANGED <<lockFile, reclaimed, options, decodeVars, keep, lockVars, browserVars, extractVars,
                 cached, writing, observed>>

\* auth.ts:339-343  validateSession(cliToken) resolves
ValidateCli(p, resp) ==
  /\ pc[p] = "validate_cli"
  /\ IF validateSession(resp)
       THEN Finish(p, Success(cliToken[p], NoToken), "ok")
       ELSE Finish(p, Failure("invalid_cli_token"), "fail")
  /\ accepted' = Set(accepted, p, IF validateSession(resp) THEN cliToken[p] ELSE accepted[p])
  /\ UNCHANGED <<shared, options, decodeVars, keep, lockVars, browserVars, extractVars, cached, writing, observed>>

\* auth.ts:349-356  validateSession(envToken) resolves
ValidateEnv(p, resp) ==
  /\ pc[p] = "validate_env"
  /\ IF validateSession(resp)
       THEN Finish(p, Success(envToken[p], NoToken), "ok")
       ELSE Finish(p, Failure("invalid_env_token"), "fail")
  /\ accepted' = Set(accepted, p, IF validateSession(resp) THEN envToken[p] ELSE accepted[p])
  /\ UNCHANGED <<shared, options, decodeVars, keep, lockVars, browserVars, extractVars, cached, writing, observed>>

\* getCachedToken with JSON.parse outside its try block: a file that is not a
\* JSON text makes getCachedToken, and so resolveAuth, reject
ReadCacheRaising(p) ==
  /\ pc[p] = "read_cache"
  /\ IF cache.kind \in {"corrupt", "empty"}
       THEN /\ Finish(p, Raised, "fail")
            /\ UNCHANGED <<cached, lockVars, browserVars, extractVars>>
       ELSE /\ cached' = Set(cached, p, getCachedToken(cache))
            /\ IF getCachedToken(cache).kind = "hit"
                 THEN /\ pc' = Set(pc, p, "validate_cached")
                      /\ UNCHANGED <<consulted, result, lockVars, browserVars, extractVars>>
                 ELSE Priority4(p, Settle(p, "fail")[p])
  /\ observed' = Set(observed, p, cache.kind)
  /\ UNCHANGED <<shared, options, decodeVars, keep, writing, accepted>>

\* auth.ts:360-363 (99-116)  the read of the cache file resolves
ReadCache(p) ==
  /\ pc[p] = "read_cache"
  /\ cached' = Set(cached, p, getCachedToken(cache))
  /\ IF getCachedToken(cache).kind = "hit"
       THEN /\ pc' = Set(pc, p, "validate_cached")
            /\ UNCHANGED <<consulted, result, lockVars, browserVars, extractVars>>
       ELSE Priority4(p, Settle(p, "fail")[p])
  /\ observed' = Set(observed, p, cache.kind)
  /\ UNCHANGED <<shared, options, decodeVars, keep, writing, accepted>>

\* resolveAuth without the test of line 365: the unexpired cached token is
\* returned whatever validateSession answered
ValidateCachedTrusting(p, resp) ==
  /\ pc[p] = "validate_cached"
  /\ result' = Set(result, p, Success(cached[p].token, cached[p].graphToken))
  /\ IF cached[p].needsRefresh /\ interactive[p]
       THEN /\ consulted' = Set(consulted, p,
                  Append(Settle(p, IF validateSession(resp) THEN "ok" ELSE "fail")[p],
                         [source |-> "extract", outcome |-> "pending"]))
            /\ caller' = Set(caller, p, "background")
            /\ BeginTry(p, TRUE, BackgroundExtractTimeout)
       ELSE /\ consulted' = Settle(p, IF validateSession(resp) THEN "ok" ELSE "fail")
            /\ pc' = Set(pc, p, "done")
            /\ UNCHANGED <<lockVars, browserVars, extractVars>>
  /\ accepted' = Set(accepted, p, IF validateSession(resp) THEN cached[p].token ELSE accepted[p])
  /\ UNCHANGED <<shared, options, decodeVars, keep, cached, writing, observed>>

\* resolveAuth without the needsRefresh of line 367: every valid hit of an
\* interactive caller starts the background refresh
ValidateCachedRefreshing(p, resp) ==
  /\ pc[p] = "validate_cached"
  /\ IF validateSession(resp)
       THEN /\ result' = Set(result, p, Success(cached[p].token, cached[p].graphToken))
            /\ IF interactive[p]
                 THEN /\ consulted' = Set(consulted, p, Append(Settle(p, "ok")[p],
                            [source |-> "extract", outcome |-> "pending"]))
                      /\ caller' = Set(caller, p, "background")
                      /\ BeginTry(p, TRUE, BackgroundExtractTimeout)
                 ELSE /\ consulted' = Settle(p, "ok")
                      /\ pc' = Set(pc, p, "done")
                      /\ UNCHANGED <<lockVars, browserVars, extractVars>>
       ELSE Priority4(p, Settle(p, "fail")[p])
  /\ accepted' = Set(accepted, p, IF validateSession(resp) THEN cached[p].token ELSE accepted[p])
  /\ UNCHANGED <<shared, options, decodeVars, keep, cached, writing, observed>>

\* auth.ts:363-384  validateSession(cached.token) resolves; a hit near its
\* expiry starts the background refresh (auth.ts:367-375) before returning
ValidateCached(p, resp) ==
  /\ pc[p] = "validate_cached"
  /\ IF validateSession(resp)
       THEN /\ result' = Set(result, p, Success(cached[p].token, cached[p].graphToken))
            /\ IF cached[p].needsRefresh /\ interactive[p]
                 THEN /\ consulted' = Set(consulted, p, Append(Settle(p, "ok")[p],
                            [source |-> "extract", outcome |-> "pending"]))
                      /\ caller' = Set(caller, p, "background")
                      /\ BeginTry(p, TRUE, BackgroundExtractTimeout)
                 ELSE /\ consulted' = Settle(p, "ok")
                      /\ pc' = Set(pc, p, "done")
                      /\ UNCHANGED <<lockVars, browserVars, extractVars>>
       ELSE Priority4(p, Settle(p, "fail")[p])
  /\ accepted' = Set(accepted, p, IF validateSession(resp) THEN cached[p].token ELSE accepted[p])
  /\ UNCHANGED <<shared, options, decodeVars, keep, cached, writing, observed>>

\* resolveAuth without the test of line 391: the captured token is cached and
\* returned whatever validateSession answered
ValidateExtractedUnchecked(p, resp) ==
  /\ pc[p] = "validate_extracted"
  /\ pc' = Set(pc, p, "set_cache")
  /\ accepted' = Set(accepted, p, IF validateSession(resp) THEN tryResult[p].token ELSE accepted[p])
  /\ UNCHANGED <<shared, options, decodeVars, keep, lockVars, browserVars, extractVars, cached,
                 writing, observed, result, consulted>>

\* resolveAuth without the setCachedToken of line 393
ValidateExtractedNoStore(p, resp) ==
  /\ pc[p] = "validate_extracted"
  /\ IF validateSession(resp)
       THEN Finish(p, Success(tryResult[p].token, tryResult[p].graphToken), "ok")
       ELSE Finish(p, Failure("extracted_token_invalid"), "fail")
  /\ accepted' = Set(accepted, p, IF validateSession(resp) THEN tryResult[p].token ELSE accepted[p])
  /\ UNCHANGED <<shared, options, decodeVars, keep, lockVars, browserVars, extractVars, cached, writing, observed>>

\* resolveAuth with setCachedToken (auth.ts:393) before the test of line 391:
\* the extracted token is in the cache file whatever validateSession said
ValidateExtractedStoring(p, resp) ==
  /\ pc[p] = "validate_extracted"
  /\ IF validateSession(resp)
       THEN pc' = Set(pc, p, "set_cache") /\ UNCHANGED <<result, consulted, cache>>
       ELSE /\ Finish(p, Failure("extracted_token_invalid"), "fail")
            /\ cache' = [CacheFile(CachedToken(tryResult[p].token, tryResult[p].graphToken,
                             IF ExpiresInOf(tryResult[p].token) > LifeCap THEN LifeCap
                             ELSE ExpiresInOf(tryResult[p].token))) EXCEPT !.by = p]
  /\ accepted' = Set(accepted, p, IF validateSession(resp) THEN tryResult[p].token ELSE accepted[p])
  /\ UNCHANGED <<lockFile, reclaimed, options, decodeVars, keep, lockVars, browserVars,
                 extractVars, cached, writing, observed>>

\* auth.ts:390-403  validateSession(playwrightResult.token) resolves
ValidateExtracted(p, resp) ==
  /\ pc[p] = "validate_extracted"
  /\ IF validateSession(resp)
       THEN pc' = Set(pc, p, "set_cache") /\ UNCHANGED <<result, consulted>>
       ELSE Finish(p, Failure("extracted_token_invalid"), "fail")
  /\ accepted' = Set(accepted, p, IF validateSession(resp) THEN tryResult[p].token ELSE accepted[p])
  /\ UNCHANGED <<shared, options, decodeVars, keep, lockVars, browserVars, extractVars, cached, writing, observed>>

\* ---- the refresh command (part_005:240-271) -------------------------------------
\* part_005:244  `clippy refresh` has decided to refresh and calls
\* extractTokenViaPlaywright({headless: true, timeout: 30000, ...}); the
\* options userDataDir and fallbackToVisible are not read by auth.ts:145
StartRefresh(p) ==
  /\ pc[p] \in {"idle", "done", "crashed"}
  /\ cliToken' = Set(cliToken, p, NoToken)
  /\ envToken' = Set(envToken, p, NoToken)
  /\ interactive' = Set(interactive, p, FALSE)
  /\ result' = Set(result, p, NoResult)
  /\ consulted' = Set(consulted, p, <<>>)
  /\ cached' = Set(cached, p, NoCached)
  /\ writing' = Set(writing, p, NoCache)
  /\ caller' = Set(caller, p, "refresh")
  /\ holds' = Set(holds, p, FALSE)
  /\ headless' = Set(headless, p, TRUE)
  /\ timeout' = Set(timeout, p, RefreshExtractTimeout)
  /\ elapsed' = Set(elapsed, p, 0)
  /\ markerAtStart' = Set(markerAtStart, p, MarkerOf(lockFile))
  /\ beaten' = Set(beaten, p, FALSE)
  /\ context' = Set(context, p, "none")
  /\ captured' = Set(captured, p, NoToken)
  /\ capturedGraph' = Set(capturedGraph, p, NoToken)
  /\ tryResult' = Set(tryResult, p, NoResult)
  /\ attempts' = Set(attempts, p, NoAttempt)
  /\ pc' = Set(pc, p, "acq_read")
  /\ accepted' = Set(accepted, p, NoToken)
  /\ observed' = Set(observed, p, "unread")
  /\ UNCHANGED <<shared, decodeVars, keep>>

\* the refresh command without the exit of part_005:254-257
ValidateRefreshedUnchecked(p, resp) ==
  /\ pc[p] = "validate_refreshed"
  /\ pc' = Set(pc, p, "refresh_open")
  /\ accepted' = Set(accepted, p, IF validateSession(resp) THEN tryResult[p].token ELSE accepted[p])
  /\ UNCHANGED <<shared, options, decodeVars, keep, lockVars, browserVars, extractVars, cached,
                 writing, consulted, result, observed>>

\* part_005:253-257  validateSession(result.token) resolves
ValidateRefreshed(p, resp) ==
  /\ pc[p] = "validate_refreshed"
  /\ IF validateSession(resp)
       THEN pc' = Set(pc, p, "refresh_open") /\ UNCHANGED result
       ELSE /\ result' = Set(result, p, Failure("refreshed_token_invalid"))
            /\ pc' = Set(pc, p, "done")
  /\ accepted' = Set(accepted, p, IF validateSession(resp) THEN tryResult[p].token ELSE accepted[p])
  /\ UNCHANGED <<shared, options, decodeVars, keep, lockVars, browserVars, extractVars, cached,
                 writing, consulted, observed>>

\* part_005:260-263  expiresAt is computed, mkdir resolves and writeFile opens
\* the file (truncating it); or one of them throws, which nothing catches
RefreshOpen(p, ok) ==
  /\ pc[p] = "refresh_open"
  /\ IF ok
       THEN /\ writing' = Set(writing, p,
                  CacheFile(CachedToken(tryResult[p].token, tryResult[p].graphToken,
                      IF ExpiresInOf(tryResult[p].token) > LifeCap THEN LifeCap
                      ELSE ExpiresInOf(tryResult[p].token))))
            /\ cache' = [EmptyCache EXCEPT !.by = p]
            /\ pc' = Set(pc, p, "refresh_write")
            /\ UNCHANGED result
       ELSE /\ writing' = Set(writing, p, FailedWrite)
            /\ result' = Set(result, p, Raised)
            /\ pc' = Set(pc, p, "done")
            /\ UNCHANGED cache
  /\ UNCHANGED <<lockFile, reclaimed, options, decodeVars, keep, lockVars,
                 browserVars, extractVars, cached, consulted, accepted, observed>>

\* part_005:263-270  writeFile writes the JSON text and the command ends, or
\* writeFile throws
RefreshWrite(p, ok) ==
  /\ pc[p] = "refresh_write"
  /\ cache' = IF ok THEN [writing[p] EXCEPT !.by = p] ELSE cache
  /\ writing' = Set(writing, p, IF ok THEN writing[p] ELSE FailedWrite)
  /\ result' = Set(result, p, IF ok THEN Success(tryResult[p].token, tryResult[p].graphToken)
                                   ELSE Raised)
  /\ pc' = Set(pc, p, "done")
  /\ UNCHANGED <<lockFile, reclaimed, options, decodeVars, keep, lockVars,
                 browserVars, extractVars, cached, consulted, accepted, observed>>

\* ---- the environment -----------------------------------------------------------
\* the process dies (kill, power loss) while it owns the marker: nothing of
\* release() runs
Crash(p) ==
  /\ pc[p] \in {"acq_write", "ext_mkdir", "ext_launch", "ext_goto", "ext_wait",
                "ext_graph", "ext_close", "ext_release", "catch_close", "catch_release"}
  /\ pc' = Set(pc, p, "crashed")
  /\ lockFile' = IF lockFile.exists /\ lockFile.owner = p
                   THEN [lockFile EXCEPT !.orphan = TRUE]
                   ELSE lockFile
  /\ Forget(p)
  /\ UNCHANGED <<reclaimed, cache, options, decodeVars, keep, caller, tryResult, resolveVars>>

\* the steps from the call of tryExtractToken to the return of
\* extractTokenViaPlaywright
ExtractStep(p) ==
  \/ AcqRead(p)
  \/ AcqUnlink(p)
  \/ AcqOpen(p)
  \/ AcqWrite(p, "ok")
  \/ AcqWake(p)
  \/ \E ok \in BOOLEAN : ExtMkdir(p, ok)
  \/ \E out \in {"ok", "launch_error", "page_error"} : ExtLaunch(p, out)
  \/ \E tok \in OutlookTokens : Capture(p, tok)
  \/ \E out \in {"ok", "timeout", "error"} : ExtGoto(p, out)
  \/ \E ok \in BOOLEAN : ExtWait(p, ok)
  \/ \E ok \in BOOLEAN : ExtGraph(p, ok)
  \/ \E ok \in BOOLEAN : ExtClose(p, ok)
  \/ ExtRelease(p)
  \/ \E ok \in BOOLEAN : CatchClose(p, ok)
  \/ CatchRelease(p)
  \/ ExtractReturn(p)
  \/ Crash(p)

Step(p) ==
  \/ \E cli \in CliTokens \cup {NoToken}, env \in EnvTokens \cup {NoToken}, inter \in BOOLEAN :
        StartResolve(p, cli, env, inter)
  \/ \E resp \in Responses : ValidateCli(p, resp)
  \/ \E resp \in Responses : ValidateEnv(p, resp)
  \/ ReadCache(p)
  \/ \E resp \in Responses : ValidateCached(p, resp)
  \/ ExtractStep(p)
  \/ \E tok \in GraphTokens : CaptureGraph(p, tok)
  \/ \E resp \in Responses : ValidateExtracted(p, resp)
  \/ \E ok \in BOOLEAN : SetCacheOpen(p, ok)
  \/ \E ok \in BOOLEAN : SetCacheWrite(p, ok)

\* another process, not shown, takes the lock (auth.ts:38-40) ...
OtherAcquire ==
  /\ ~lockFile.exists
  /\ lockFile' = [exists |-> TRUE, data |-> <<0>>, owner |-> 0, age |-> 0, orphan |-> FALSE]
  /\ beaten' = [q \in Procs |-> beaten[q] \/ pc[q] \in AcquirePcs]
  /\ UNCHANGED <<reclaimed, cache, pc, options, decodeVars, keep, elapsed, markerAtStart, holds,
                 browserVars, extractVars, resolveVars>>

\* ... and releases it (auth.ts:43-49)
OtherRelease ==
  /\ lockFile.exists
  /\ lockFile.owner = 0
  /\ lockFile' = release(lockFile)
  /\ UNCHANGED <<reclaimed, cache, pc, options, decodeVars, keep, lockVars, browserVars, extractVars,
                 resolveVars>>

\* the processes that call resolveAuth in Spec
Resolvers == {1}

Next ==
  \/ \E fall \in BOOLEAN : Tick(fall)
  \/ \E p \in Resolvers : Step(p)
  \/ OtherAcquire
  \/ OtherRelease

Spec == Init /\ [][Next]_vars

\* resolveAuth on a machine whose cache file may be any JSON object
InitStored ==
  /\ InitFrom(InitialCaches \cup ForeignCaches)
  /\ jwt = JwtOf["owa"]
  /\ decoded = Undecoded

SpecStored == InitStored /\ [][Next]_vars

\* several commands that extract, racing for the lock
InitLock == Init /\ cache = NoCache

NextLock ==
  \/ Tick(FALSE)
  \/ \E p \in Procs : StartExtract(p, DefaultExtractTimeout)
  \/ \E p \in Procs : ExtractStep(p)

SpecLock == InitLock /\ [][NextLock]_vars

\* the steps of acquireLock alone
AcquireStep(p) ==
  \/ AcqRead(p)
  \/ AcqUnlink(p)
  \/ AcqOpen(p)
  \/ AcqWrite(p, "ok")
  \/ AcqWake(p)

\* commands racing for the lock on a machine where the profile directory
\* cannot be created: every holder releases without launching a browser
NextWait ==
  \/ Tick(FALSE)
  \/ \E p \in Procs : StartExtract(p, DefaultExtractTimeout)
  \/ \E p \in Procs : AcquireStep(p)
  \/ \E p \in Procs : ExtMkdir(p, FALSE)
  \/ \E p \in Procs : CatchRelease(p)
  \/ \E p \in Procs : ExtractReturn(p)
  \/ \E p \in Procs : Crash(p)

SpecWait == InitLock /\ [][NextWait]_vars

\* ... with a clock that advances and an acquireLock that is not suspended
\* for ever
FairWait ==
  /\ SpecWait
  /\ WF_vars(Tick(FALSE))
  /\ \A p \in Procs : WF_vars(AcquireStep(p))

\* ---- Handle.release (auth.ts:42-50) ---------------------------------------------
\* how unlink(LOCK_FILE) ends: "ENOENT" when there is no file; else it removes
\* the file, or with `err` fails for another reason (EPERM, EBUSY, EIO)
UnlinkOutcome(file, err) ==
  IF ~file.exists THEN "ENOENT" ELSE IF err THEN "EPERM" ELSE "ok"

\* release() without the try of lines 44-48: an error of unlink rejects
HandleReleaseUnguarded(p, err) ==
  /\ pc[p] \in {"ext_mkdir", "released"}
  /\ lockFile' = IF UnlinkOutcome(lockFile, err) = "ok" THEN NoLock ELSE lockFile
  /\ attempts' = Mark(p, "unlink", UnlinkOutcome(lockFile, err))
  /\ holds' = Set(holds, p, FALSE)
  /\ IF UnlinkOutcome(lockFile, err) = "ok"
       THEN /\ pc' = Set(pc, p, IF pc[p] = "ext_mkdir" THEN "released" ELSE "done")
            /\ UNCHANGED result
       ELSE /\ pc' = Set(pc, p, "done")
            /\ result' = Set(result, p, Raised)
  /\ UNCHANGED <<reclaimed, cache, options, decodeVars, keep, elapsed, markerAtStart, beaten,
                 browserVars, caller, headless, timeout, tryResult, cached, writing,
                 consulted, accepted, observed>>

\* auth.ts:43-49  the holder of a Handle calls release(), a first and then a
\* second time: unlink(LOCK_FILE) removes whatever file is there, and every
\* error of unlink is caught and ignored
HandleRelease(p, err) ==
  /\ pc[p] \in {"ext_mkdir", "released"}
  /\ lockFile' = IF UnlinkOutcome(lockFile, err) = "ok" THEN NoLock ELSE lockFile
  /\ attempts' = Mark(p, "unlink", UnlinkOutcome(lockFile, err))
  /\ holds' = Set(holds, p, FALSE)
  /\ pc' = Set(pc, p, IF pc[p] = "ext_mkdir" THEN "released" ELSE "done")
  /\ UNCHANGED <<reclaimed, cache, options, decodeVars, keep, elapsed, markerAtStart, beaten,
                 browserVars, caller, headless, timeout, tryResult, resolveVars>>

\* commands that take the lock and release their Handle twice, while the
\* marker ages and the others reclaim it
NextRelease ==
  \/ Tick(FALSE)
  \/ \E p \in Procs : StartExtract(p, DefaultExtractTimeout)
  \/ \E p \in Procs : AcquireStep(p)
  \/ \E p \in Procs, err \in BOOLEAN : HandleRelease(p, err)

SpecRelease == InitLock /\ [][NextRelease]_vars

\* commands racing for the lock on a machine where the file system fails at
\* times: the write of the timestamp or the close of the marker may throw, and
\* the profile directory cannot be created, so that every holder releases
\* without launching a browser
NextCreate ==
  \/ Tick(FALSE)
  \/ \E p \in Procs : StartExtract(p, DefaultExtractTimeout)
  \/ \E p \in Procs : AcqRead(p)
  \/ \E p \in Procs : AcqUnlink(p)
  \/ \E p \in Procs : AcqOpen(p)
  \/ \E p \in Procs, out \in WriteOutcomes : AcqWrite(p, out)
  \/ \E p \in Procs : AcqWake(p)
  \/ \E p \in Procs : ExtMkdir(p, FALSE)
  \/ \E p \in Procs : CatchRelease(p)
  \/ \E p \in Procs : ExtractReturn(p)

SpecCreate == InitLock /\ [][NextCreate]_vars

\* the tokens the page's requests carry while `clippy refresh` extracts
RefreshTokens == {"owa", "brief"}

RefreshGraphTokens == {"graph", "graph2"}

\* `clippy refresh` run by a scheduler, one run after the other, while other
\* processes take and release the lock
NextRefresh ==
  \/ \E fall \in BOOLEAN : Tick(fall)
  \/ \E p \in Resolvers : StartRefresh(p)
  \/ \E p \in Resolvers : ExtractStep(p)
  \/ \E p \in Resolvers, tok \in RefreshTokens : Capture(p, tok)
  \/ \E p \in Resolvers, tok \in RefreshGraphTokens : CaptureGraph(p, tok)
  \/ \E p \in Resolvers, resp \in Responses : ValidateRefreshed(p, resp)
  \/ \E p \in Resolvers, ok \in BOOLEAN : RefreshOpen(p, ok)
  \/ \E p \in Resolvers, ok \in BOOLEAN : RefreshWrite(p, ok)
  \/ OtherAcquire
  \/ OtherRelease

SpecRefresh == Init /\ [][NextRefresh]_vars

\* the process that runs `clippy keepalive` and the one that runs commands
\* calling resolveAuth, in SpecCache
Keepers == {1}

Readers == {2}

\* a reader (resolveAuth without a token, not interactive) and a writer (a
\* keepalive session) of the cache file
NextCache ==
  \/ \E fall \in BOOLEAN : Tick(fall)
  \/ \E p \in Readers : StartResolve(p, NoToken, NoToken, FALSE)
  \/ \E p \in Readers : ReadCache(p)
  \/ \E p \in Readers, resp \in Responses : ValidateCached(p, resp)
  \/ \E p \in Keepers : KeepaliveStart(p)
  \/ \E p \in Keepers, tok \in SessionTokens \cup {NoToken}, gtok \in GraphTokens \cup {NoToken} :
        KeepaliveCapture(p, tok, gtok)
  \/ \E p \in Keepers : KeepalivePersist(p)
  \/ \E p \in Keepers : KeepaliveSleep(p)
  \/ \E p \in Keepers, ok \in BOOLEAN : KeepaliveReload(p, ok)
  \/ \E p \in Keepers, ok \in BOOLEAN : KeepaliveGoto(p, ok)
  \/ \E p \in Keepers, ok \in BOOLEAN : SetCacheOpen(p, ok)
  \/ \E p \in Keepers, ok \in BOOLEAN : SetCacheWrite(p, ok)

SpecCache == Init /\ [][NextCache]_vars

\* auth.ts:308-328  one step of the loop of a keepalive session: each await of
\* the loop body settles (the sleeps are timers, reload and goto have a
\* timeout of 60 s, mkdir and writeFile end)
KeepaliveLoop(p) ==
  \/ KeepalivePersist(p)
  \/ \E ok \in BOOLEAN : SetCacheOpen(p, ok)
  \/ \E ok \in BOOLEAN : SetCacheWrite(p, ok)
  \/ KeepaliveSleep(p)
  \/ \E ok \in BOOLEAN : KeepaliveReload(p, ok)
  \/ \E ok \in BOOLEAN : KeepaliveGoto(p, ok)

\* a keepalive session alone: its page sends requests at any time, the clock
\* passes, the loop runs
NextKeepalive ==
  \/ \E fall \in BOOLEAN : Tick(fall)
  \/ \E p \in Keepers : KeepaliveStart(p)
  \/ \E p \in Keepers, tok \in SessionTokens \cup {NoToken}, gtok \in GraphTokens \cup {NoToken} :
        KeepaliveCapture(p, tok, gtok)
  \/ \E p \in Keepers : KeepaliveLoop(p)

SpecKeepalive == Init /\ [][NextKeepalive]_vars

\* ... whose event loop runs: no await of the loop is pending for ever
FairKeepalive ==
  /\ SpecKeepalive
  /\ \A p \in Keepers : WF_vars(KeepaliveLoop(p))

\* getJwtExpiration applied to one token
Decode ==
  /\ decoded = Undecoded
  /\ decoded' = getJwtExpiration(jwt)
  /\ UNCHANGED <<shared, pc, options, jwt, keep, lockVars, browserVars, extractVars, resolveVars>>

InitJwt ==
  /\ InitAuth
  /\ cache = NoCache
  /\ jwt \in Jwts
  /\ decoded = Undecoded

SpecJwt == InitJwt /\ [][Decode]_vars

\* ---- the browser section -----------------------------------------------------
\* auth.ts:176-264  between the return of a Handle and the return of release()
SectionPcs == {"ext_mkdir", "ext_launch", "ext_goto", "ext_wait", "ext_graph",
               "ext_close", "ext_release", "catch_close", "catch_release"}

InSection(p) == pc[p] \in SectionPcs

\* auth.ts:169-174  the value tryExtractToken returns when acquireLock gave null
Contended(p) == pc[p] = "try_ret" /\ tryResult[p] = Failure("contend")

\* ---- C1 -------------------------------------------------------------------------
\* C1: at any instant at most one process is inside the browser section
MutualExclusion ==
  \A p, q \in Procs : (InSection(p) /\ InSection(q)) => p = q

CrashedMarkerHeals ==
  \A p \in Procs :
    (markerAtStart[p] \in {"stale", "abandoned"} /\ ~beaten[p]) =>
       ~(pc[p] = "acq_sleep" \/ Contended(p))

\* ---- C5 -------------------------------------------------------------------------
\* C5: acquireLock terminates, with a Handle or with none; after a sleep it
\* polls again only while the elapsed time is below its timeout, and returns
\* none otherwise
AcquireTerminates ==
  /\ \A p \in Procs :
       (pc[p] \in AcquirePcs) ~> (pc[p] \in {"ext_mkdir", "try_ret", "crashed"})
  /\ [][\A p \in Procs :
          (pc[p] = "acq_sleep" /\ pc'[p] # "acq_sleep") =>
             IF elapsed[p] < (IF headless[p] THEN HeadlessLockTimeout ELSE AttendedLockTimeout)
               THEN pc'[p] = "acq_read"
               ELSE pc'[p] = "try_ret" /\ tryResult'[p] = Failure("contend")]_vars

\* an acquireLock returned none at its deadline with the marker still held
DeadlineReached ==
  \E p \in Procs :
    /\ Contended(p)
    /\ elapsed[p] >= LockTimeoutOf(headless[p])
    /\ lockFile.exists
    /\ lockFile.owner # p

\* ---- C6 -------------------------------------------------------------------------
\* C6: whenever tryExtractToken has returned or thrown, the lock it acquired
\* is released and the browser context it opened is closed
EveryExitReleases ==
  \A p \in Procs :
    pc[p] = "try_ret" => (~holds[p] /\ context[p] # "open")

\* ---- C7 -------------------------------------------------------------------------
\* C7: a tryExtractToken that returns the contention failure has waited its
\* lock timeout (5 s headless, 30 s attended), has launched no browser, has
\* not touched the profile directory and holds no lock
ContentionSkipsBrowser ==
  \A p \in Procs :
    Contended(p) =>
       /\ elapsed[p] >= (IF headless[p] THEN 5000 ELSE 30000)
       /\ context[p] = "none"
       /\ ~attempts[p].profile
       /\ ~attempts[p].launched
       /\ ~holds[p]

\* an attended attempt returned the contention failure while another process
\* is in the browser section
ContentionReached ==
  \E p, q \in Procs :
    /\ p # q
    /\ Contended(p)
    /\ ~headless[p]
    /\ InSection(q)

\* ---- C8 -------------------------------------------------------------------------
\* C8: after a tryExtractToken of an invocation has returned the contention
\* failure, the invocation does not try to acquire the lock again
ContentionNotRetried ==
  \A p \in Procs :
    attempts[p].contended => pc[p] \notin (AcquirePcs \cup {"acq_write"} \cup SectionPcs)

\* ---- C9 -------------------------------------------------------------------------
Rank(src) ==
  CASE src = "explicit" -> 1
    [] src = "env" -> 2
    [] src = "cache" -> 3
    [] src = "extract" -> 4

\* the first source resolveAuth consults is the highest one present, the next
\* ones follow in increasing priority number, extraction only when interactive
InPriorityOrder(p) ==
  LET log == consulted[p] IN
  /\ Len(log) > 0 =>
       log[1].source = (IF cliToken[p] # NoToken THEN "explicit"
                        ELSE IF envToken[p] # NoToken THEN "env" ELSE "cache")
  /\ \A i, j \in 1..Len(log) : i < j => Rank(log[i].source) < Rank(log[j].source)
  /\ \A i \in 1..Len(log) :
       /\ log[i].source = "extract" => (interactive[p] /\ i > 1 /\ log[i-1].source = "cache")
       /\ (log[i].source = "cache" /\ i > 1) => FALSE

\* C9 as stated: the sources are consulted in strict priority order, and none
\* is consulted after the first one that produced a validated token
StrictPriorityOrder ==
  \A p \in Procs :
    /\ InPriorityOrder(p)
    /\ \A i \in 1..(Len(consulted[p]) - 1) : consulted[p][i].outcome = "fail"

\* C9: the sources are consulted in strict priority order, and none is
\* consulted after the first one that produced a validated token, except that
\* a validated cache hit within five minutes of its expiry, with interactive
\* true, is followed by one extraction for the background refresh
PriorityOrderButRefresh ==
  \A p \in Procs :
    /\ InPriorityOrder(p)
    /\ \A i \in 1..(Len(consulted[p]) - 1) :
         \/ consulted[p][i].outcome = "fail"
         \/ /\ consulted[p][i].source = "cache"
            /\ consulted[p][i].outcome = "ok"
            /\ cached[p].needsRefresh
            /\ interactive[p]
            /\ caller[p] = "background"
            /\ i + 1 = Len(consulted[p])

\* cache consulted and rejected, then the extraction produced a validated token
FallThroughReached ==
  \E p \in Procs :
    /\ Len(consulted[p]) = 2
    /\ consulted[p][1] = [source |-> "cache", outcome |-> "fail"]
    /\ consulted[p][2] = [source |-> "extract", outcome |-> "ok"]
    /\ result[p].success

\* ---- C10 ------------------------------------------------------------------------
\* C10: when the validation of the explicit token, or of the environment token
\* with no explicit token, fails, resolveAuth ends at once with the failure
\* that names the token: the cache is not read and no extraction is started
InvalidTokenIsTerminal ==
  \A p \in Procs :
    /\ (Len(consulted[p]) > 0 /\ consulted[p][1] = [source |-> "explicit", outcome |-> "fail"]) =>
         /\ result[p] = Failure("invalid_cli_token")
         /\ pc[p] = "done"
         /\ Len(consulted[p]) = 1
         /\ cached[p] = NoCached
         /\ attempts[p] = NoAttempt
    /\ (Len(consulted[p]) > 0 /\ consulted[p][1] = [source |-> "env", outcome |-> "fail"]) =>
         /\ cliToken[p] = NoToken
         /\ result[p] = Failure("invalid_env_token")
         /\ pc[p] = "done"
         /\ Len(consulted[p]) = 1
         /\ cached[p] = NoCached
         /\ attempts[p] = NoAttempt

\* an explicit token was rejected while the cache held an unexpired token and
\* the invocation was interactive
InvalidTokenReached ==
  \E p \in Procs :
    /\ result[p] = Failure("invalid_cli_token")
    /\ interactive[p]
    /\ getCachedToken(cache).kind = "hit"

\* ---- C11 ------------------------------------------------------------------------
\* the invocation of p has ended without reading or writing the cache file and
\* without a call of tryExtractToken (lock, profile directory, browser)
Untouched(p) ==
  /\ pc[p] = "done"
  /\ Len(consulted[p]) = 1
  /\ observed[p] = "unread"
  /\ cached[p] = NoCached
  /\ writing[p] = NoCache
  /\ attempts[p] = NoAttempt
  /\ ~holds[p]
  /\ context[p] = "none"

\* C11: when the explicit token, or the environment token with no explicit
\* token, passes validation, resolveAuth returns success with exactly that
\* token, and neither the cache file nor the lock nor the browser profile has
\* been read or written: the validating step leaves both files as they were
ValidTokenShortCircuits ==
  /\ [](\A p \in Procs :
         /\ (Len(consulted[p]) > 0 /\ consulted[p][1] = [source |-> "explicit", outcome |-> "ok"]) =>
              /\ cliToken[p] # NoToken
              /\ result[p] = Success(cliToken[p], NoToken)
              /\ Untouched(p)
         /\ (Len(consulted[p]) > 0 /\ consulted[p][1] = [source |-> "env", outcome |-> "ok"]) =>
              /\ cliToken[p] = NoToken
              /\ envToken[p] # NoToken
              /\ result[p] = Success(envToken[p], NoToken)
              /\ Untouched(p))
  /\ [][\A p \in Procs :
          (pc[p] \in {"validate_cli", "validate_env"} /\ pc'[p] # pc[p]) =>
            (cache' = cache /\ lockFile' = lockFile)]_vars

\* a valid explicit token returned by an interactive invocation while the cache
\* held an unexpired token
ValidTokenReached ==
  \E p \in Procs :
    /\ result[p] = Success(cliToken[p], NoToken)
    /\ cliToken[p] # NoToken
    /\ interactive[p]
    /\ getCachedToken(cache).kind = "hit"

\* ---- C12 ------------------------------------------------------------------------
\* C12: an unexpired cached token that validateSession rejects is never the
\* token resolveAuth returns: with interactive true the next source consulted
\* is the extraction, and a success carries the token the extraction captured
\* and validateSession accepted; with interactive false resolveAuth ends with
\* the failure that no token is available
RejectedCacheNotReturned ==
  \A p \in Procs :
    (/\ Len(consulted[p]) > 0
     /\ consulted[p][1] = [source |-> "cache", outcome |-> "fail"]
     /\ cached[p].kind = "hit") =>
       /\ result[p].success =>
            /\ Len(consulted[p]) = 2
            /\ consulted[p][2] = [source |-> "extract", outcome |-> "ok"]
            /\ result[p].token = tryResult[p].token
            /\ accepted[p] = result[p].token
       /\ IF interactive[p]
            THEN Len(consulted[p]) = 2 /\ consulted[p][2].source = "extract"
            ELSE /\ result[p] = Failure("no_token")
                 /\ pc[p] = "done"
                 /\ Len(consulted[p]) = 1
                 /\ attempts[p] = NoAttempt

\* an unexpired cached token was rejected and the extraction that followed
\* delivered the token that is returned
RejectedCacheReached ==
  \E p \in Procs :
    /\ cached[p].kind = "hit"
    /\ observed[p] = "json"
    /\ consulted[p][1] = [source |-> "cache", outcome |-> "fail"]
    /\ result[p].success
    /\ result[p].token \in OutlookTokens

\* ---- C13 ------------------------------------------------------------------------
\* C13: with no explicit token, no environment token and interactive false,
\* resolveAuth never acquires the lock and never launches a browser, and once
\* the cache has given no usable entry (absent, unreadable, expired or
\* rejected) it has ended with the failure whose message tells to set
\* CLIPPY_TOKEN or to run with --interactive
NoTokenNoBrowser ==
  \A p \in Procs :
    (/\ caller[p] = "resolve"
     /\ cliToken[p] = NoToken
     /\ envToken[p] = NoToken
     /\ ~interactive[p]) =>
       /\ pc[p] \in {"idle", "read_cache", "validate_cached", "done"}
       /\ attempts[p] = NoAttempt
       /\ ~holds[p]
       /\ context[p] = "none"
       /\ (Len(consulted[p]) > 0 /\ consulted[p][1].outcome = "fail") =>
            /\ result[p] = Failure("no_token")
            /\ pc[p] = "done"
            /\ Len(consulted[p]) = 1

\* the failure returned without a cache file, while nobody holds the lock
NoTokenReached ==
  \E p \in Procs :
    /\ result[p] = Failure("no_token")
    /\ observed[p] = "absent"
    /\ ~interactive[p]
    /\ ~lockFile.exists

\* ---- C14 ------------------------------------------------------------------------
\* resolveAuth of p has returned after: no cache file, interactive true, the
\* headless tryExtractToken returned 'No active session found', the visible one
\* captured a token, and validateSession accepted it
ScenarioD(p) ==
  /\ pc[p] = "done"
  /\ caller[p] = "resolve"
  /\ interactive[p]
  /\ observed[p] = "absent"
  /\ attempts[p].first = "no_session"
  /\ tryResult[p].success
  /\ accepted[p] = tryResult[p].token

\* the cache file holds the credential resolveAuth of p returned
CacheHolds(p) ==
  /\ cache.kind = "json"
  /\ JSONparse(cache.json).token = result[p].token
  /\ JSONparse(cache.json).graphToken = result[p].graphToken

ValidatedBeforeSuccess ==
  \A p \in Procs :
    (caller[p] \in {"resolve", "background"} /\ result[p].success) =>
      /\ result[p].token # NoToken
      /\ accepted[p] = result[p].token

\* a success by extraction, after a cache file that could not be used
ValidatedSuccessReached ==
  \E p \in Procs :
    /\ result[p].success
    /\ accepted[p] = result[p].token
    /\ consulted[p][Len(consulted[p])] = [source |-> "extract", outcome |-> "ok"]
    /\ observed[p] \in {"corrupt", "empty"}

\* ---- C16 ------------------------------------------------------------------------
\* C16: a setCachedToken that is about to write the cache file writes a token
\* that validateSession accepted in this invocation, after its capture
OnlyValidatedIsWritten ==
  \A p \in Procs :
    pc[p] = "set_cache_write" => accepted[p] = JSONparse(writing[p].json).token

\* ---- C17 ------------------------------------------------------------------------
\* the last setCachedToken(token, graphToken) that wrote the cache file is the
\* one of w, it has returned, and w has not started another
WroteLast(w) ==
  /\ cache.by = w
  /\ cache.kind = "json"
  /\ writing[w].kind = "json"
  /\ pc[w] # "set_cache_write"

\* C17: a getCachedToken that reads the file after the setCachedToken of
\* primary token and Graph token by w returns exactly these two and the expiry
\* written (the exp claim of the primary token, or 55 minutes) as long as the
\* expiry is in the future, and returns nothing once it is not, though the
\* file is still there
CacheRoundTrip ==
  [][\A r, w \in Procs :
       (pc[r] = "read_cache" /\ pc'[r] # "read_cache" /\ WroteLast(w)) =>
         /\ writing[w].json.expiresIn =
              (IF ExpiresInOf(tryResult[w].token) > LifeCap THEN LifeCap
               ELSE ExpiresInOf(tryResult[w].token))
         /\ cache.json.expiresIn <= writing[w].json.expiresIn
         /\ observed'[r] = "json"
         /\ cache' = cache
         /\ IF cache.json.expiresIn > 0
              THEN cached'[r] = [kind |-> "hit",
                                 token |-> tryResult[w].token,
                                 graphToken |-> tryResult[w].graphToken,
                                 needsRefresh |-> cache.json.expiresIn < REFRESH_THRESHOLD]
              ELSE cached'[r] = NoCached]_vars

\* another process read back the Outlook token and the Graph token a keepalive
\* session wrote
RoundTripReached ==
  \E r, w \in Procs :
    /\ r # w
    /\ WroteLast(w)
    /\ caller[w] = "keepalive"
    /\ observed[r] = "json"
    /\ cached[r].kind = "hit"
    /\ cached[r].token = tryResult[w].token
    /\ cached[r].graphToken \in GraphTokens
    /\ cached[r].graphToken = tryResult[w].graphToken

\* ---- C18 ------------------------------------------------------------------------
\* what resolveAuth of p does once getCachedToken has returned nothing
AfterNoEntry(p) ==
  /\ cached[p] = NoCached
  /\ pc[p] # "read_cache"
  /\ consulted[p][1] = [source |-> "cache", outcome |-> "fail"]
  /\ IF interactive[p]
       THEN Len(consulted[p]) = 2 /\ consulted[p][2].source = "extract"
       ELSE /\ Len(consulted[p]) = 1
            /\ result[p] = Failure("no_token")
            /\ pc[p] = "done"

\* C18: getCachedToken returns nothing, and does not raise, when the file is
\* missing, is not a JSON text or holds an expiresAt that has passed; what
\* resolveAuth does next is the same for a file that is not a JSON text as for
\* no file, whatever interactive is
CacheReadFailsSoft ==
  /\ getCachedToken(CorruptCache) = getCachedToken(NoCache)
  /\ getCachedToken(EmptyCache) = getCachedToken(NoCache)
  /\ \A p \in Procs :
       (\/ observed[p] \in {"absent", "corrupt", "empty"}
        \/ observed[p] = "json" /\ cached[p].kind = "miss") =>
          AfterNoEntry(p)

\* a file that is not a JSON text was read and resolveAuth ended with the
\* failure it gives without a cache file
CorruptCacheReached ==
  \E p \in Procs :
    /\ observed[p] = "corrupt"
    /\ cache = CorruptCache
    /\ ~interactive[p]
    /\ result[p] = Failure("no_token")

\* ---- C19 ------------------------------------------------------------------------
\* C19: a getCachedToken that reads while another process is inside
\* setCachedToken never finds the file truncated: it reads the previous text
\* or the new text
NoPartialRead ==
  [][\A r, w \in Procs :
       (/\ r # w
        /\ pc[w] = "set_cache_write"
        /\ pc[r] = "read_cache"
        /\ pc'[r] # "read_cache") => observed'[r] # "empty"]_vars

\* ---- C20 ------------------------------------------------------------------------
\* C20: getJwtExpiration returns, without throwing, the exp claim times 1000
\* for a token of three segments whose payload is a JSON object with a numeric
\* exp, and nothing for a token that has not three segments, whose payload is
\* no JSON text, or whose payload has no exp
DecodesExp ==
  decoded # Undecoded =>
    /\ (jwt.parts = 3 /\ jwt.payload = "object" /\ jwt.exp = "number") =>
         decoded = Num(jwt.seconds * 1000)
    /\ (jwt.parts # 3 \/ jwt.payload = "garbage" \/ jwt.exp = "absent") =>
         decoded = Null

\* ---- C21 ------------------------------------------------------------------------
\* C21: whenever setCachedToken writes a token whose exp cannot be decoded, the
\* lifetime it writes is 55 minutes less the time since that token was
\* captured, in a keepalive session too, where the token may have been
\* captured cycles ago
FallbackFromCapture ==
  \A p \in Procs :
    (/\ pc[p] = "set_cache_write"
     /\ getJwtExpiration(JwtOf[JSONparse(writing[p].json).token]).kind # "number") =>
       LET left == FallbackLifetime - keep[p].age IN
       writing[p].json.expiresIn = (IF left > LifeCap THEN LifeCap ELSE left)

\* ---- C22 ------------------------------------------------------------------------
\* C22: from the step that starts the background refresh on, whatever the
\* refresh does (waits for the lock, is refused it, fails, raises, succeeds and
\* writes the cache), the result of resolveAuth is the success with the
\* cached token that it had when the refresh started
RefreshLeavesResult ==
  \A p \in Procs :
    caller[p] = "background" =>
      /\ cached[p].kind = "hit"
      /\ result[p] = Success(cached[p].token, cached[p].graphToken)
      /\ accepted[p] = cached[p].token

\* a background refresh whose tryExtractToken rejected has ended, and the
\* result is still the success
RefreshRaisedReached ==
  \E p \in Procs :
    /\ caller[p] = "background"
    /\ pc[p] = "done"
    /\ tryResult[p] = Raised
    /\ result[p].success

\* ---- C23 ------------------------------------------------------------------------
\* C23: a run of the refresh command launches no browser with headless=false,
\* whatever the headless attempt ended with
RefreshStaysHeadless ==
  \A p \in Procs :
    caller[p] = "refresh" => ~(attempts[p].launched /\ ~headless[p])

\* ---- C24 ------------------------------------------------------------------------
\* C24: the refresh command ends with a non-zero status when the extraction
\* failed and when validateSession refused the extracted token, having opened
\* no cache file and leaving the cache as it is; a step of the command changes
\* the cache file only when validateSession has returned true for the token
\* that tryExtractToken returned
RefreshWritesOnlyValidated ==
  [][\A p \in Procs :
       caller[p] = "refresh" =>
         /\ (pc[p] \in {"try_ret", "validate_refreshed"} /\ pc'[p] = "done") =>
              /\ result'[p] # NoResult
              /\ ~result'[p].success
              /\ writing'[p] = NoCache
              /\ cache' = cache
         /\ (pc'[p] # pc[p] /\ cache' # cache) =>
              /\ pc[p] \in {"refresh_open", "refresh_write"}
              /\ accepted[p] # NoToken
              /\ accepted[p] = tryResult[p].token]_vars

\* a run of the refresh command whose token validateSession refused has ended
\* with status 1, and the cache file is the one an earlier run wrote
RefreshRejectedReached ==
  \E p \in Procs :
    /\ caller[p] = "refresh"
    /\ pc[p] = "done"
    /\ result[p] = Failure("refreshed_token_invalid")
    /\ writing[p] = NoCache
    /\ cache.kind = "json"
    /\ cache.by = p

\* ---- C25 ------------------------------------------------------------------------
\* C25: a keepalive session that has entered its loop stays in it whatever
\* page.reload and page.goto do: a failed reload is followed by the
\* navigation, a failed navigation by the next cycle, and from every point of
\* the loop a persist step and a reload are reached again
KeepaliveNeverEnds ==
  /\ \A p \in Keepers :
       /\ (caller[p] = "keepalive") ~> (pc[p] = "keepalive")
       /\ (caller[p] = "keepalive") ~> (pc[p] = "ka_reload")
  /\ [][\A p \in Keepers :
          /\ caller[p] = "keepalive" =>
                pc'[p] \in KeepalivePcs \cup {"set_cache", "set_cache_write"}
          /\ (pc[p] = "ka_reload" /\ pc'[p] # "ka_reload") =>
                \/ pc'[p] = "ka_goto" /\ keep'[p].page = keep[p].page
                \/ pc'[p] = "keepalive" /\ keep'[p].page = "reloaded"
          /\ (pc[p] = "ka_goto" /\ pc'[p] # "ka_goto") => pc'[p] = "keepalive"]_vars

\* the reload and the navigation after it have both failed, and the session
\* is at the persist step of the next cycle
FailedNavigationReached ==
  \E p \in Keepers :
    /\ caller[p] = "keepalive"
    /\ pc[p] = "keepalive"
    /\ keep[p].page = "failed"

\* ---- C26 ------------------------------------------------------------------------
\* C26: whatever fails in the file system, the browser or the network,
\* tryExtractToken and extractTokenViaPlaywright return a result and
\* resolveAuth resolves to a result: none of them rejects
NeverRaises ==
  \A p \in Procs :
    /\ pc[p] = "try_ret" => tryResult[p].error # "raised"
    /\ pc[p] = "done" => result[p].error # "raised"

FirstTokenWins ==
  \A p \in Procs :
    (pc[p] = "try_ret" /\ tryResult[p].success) =>
      /\ tryResult[p].token = attempts[p].seen
      /\ tryResult[p].graphToken = attempts[p].seenGraph

\* tryExtractToken has returned a token and a Graph token after later
\* requests to both hosts had carried other tokens
LaterTokenReached ==
  \E p \in Procs :
    /\ pc[p] = "try_ret"
    /\ tryResult[p].success
    /\ attempts[p].latest # attempts[p].seen
    /\ attempts[p].latestGraph # attempts[p].seenGraph

\* ---- C29 ------------------------------------------------------------------------
\* C29: the persist step of the keepalive loop calls setCachedToken with the
\* token and the Graph token of the most recent requests when a request to
\* the outlook host has been seen, and that call writes those two into the
\* file; when none has been seen the step leaves the cache file as it is and
\* the loop goes on to its sleep
PersistsMostRecent ==
  [][\A p \in Procs :
       caller[p] = "keepalive" =>
         /\ (pc[p] = "keepalive" /\ pc'[p] # "keepalive") =>
              IF keep[p].last # NoToken
                THEN /\ pc'[p] = "set_cache"
                     /\ tryResult'[p] = Success(keep[p].last, keep[p].lastGraph)
                ELSE /\ pc'[p] = "ka_sleep"
                     /\ cache' = cache
         /\ (pc[p] = "set_cache" /\ pc'[p] = "set_cache_write") =>
              /\ JSONparse(writing'[p].json).token = tryResult[p].token
              /\ JSONparse(writing'[p].json).graphToken = tryResult[p].graphToken
         /\ (pc[p] = "set_cache_write" /\ pc'[p] # pc[p] /\ cache' # cache) =>
              /\ cache'.kind = "json"
              /\ cache'.json = writing[p].json]_vars

\* the persist step has called setCachedToken with the latest token while the
\* file holds another token, written by an earlier cycle of this session
PersistNewerReached ==
  \E p \in Procs :
    /\ caller[p] = "keepalive"
    /\ pc[p] = "set_cache"
    /\ tryResult[p].token = keep[p].last
    /\ cache.kind = "json"
    /\ cache.by = p
    /\ JSONparse(cache.json).token # tryResult[p].token

\* ---- C30 ------------------------------------------------------------------------
\* the failure tryExtractToken returns for a timeout without a token
NoCapture(p) == Failure(IF headless[p] THEN "no_session" ELSE "login_timeout")

\* C30: a tryExtractToken whose timeout ran out with no token captured, during
\* the navigation or during the capture loop, returns 'No active session
\* found' when headless and the login-timeout message when not, unless an
\* error other than the timeout was thrown
DeadlineIsCleanFailure ==
  \A p \in Procs :
    pc[p] = "try_ret" =>
      /\ (attempts[p].deadline = "navigation" /\ tryResult[p] # Raised) =>
           tryResult[p] = NoCapture(p)
      /\ (attempts[p].deadline = "wait"
            /\ tryResult[p].error \notin {"raised", "automation_error"}) =>
           tryResult[p] = NoCapture(p)

\* ---- C31 ------------------------------------------------------------------------
\* C31: when validateSession refuses the token that the extraction returned,
\* resolveAuth returns the failure 'Extracted token is invalid or expired'
\* at once: it has not called setCachedToken, the cache file is as it was, and
\* no other tryExtractToken is started
RejectedExtractionIsTerminal ==
  [][\A p \in Procs :
       (/\ caller[p] = "resolve"
        /\ pc[p] = "validate_extracted"
        /\ pc'[p] # "validate_extracted"
        /\ accepted'[p] # tryResult[p].token) =>
          /\ pc'[p] = "done"
          /\ result'[p] = Failure("extracted_token_invalid")
          /\ cache' = cache
          /\ writing'[p] = NoCache
          /\ attempts'[p] = attempts[p]
          /\ lockFile' = lockFile]_vars

\* resolveAuth has returned that failure for a captured token, and the cache
\* file still holds the token it held before
RejectedExtractionReached ==
  \E p \in Procs :
    /\ caller[p] = "resolve"
    /\ pc[p] = "done"
    /\ result[p] = Failure("extracted_token_invalid")
    /\ tryResult[p].success
    /\ cache.kind = "json"
    /\ JSONparse(cache.json).token = "old"

\* ---- C32 ------------------------------------------------------------------------
\* C32: getCachedToken sets needsRefresh exactly when the lifetime left to the
\* record is below five minutes, and resolveAuth, when validateSession has
\* accepted the cached token, starts tryExtractToken exactly when needsRefresh
\* and interactive are both true; otherwise it returns the token having
\* started no extraction and touched no lock file
RefreshOnlyNearExpiry ==
  [][\A p \in Procs :
       /\ (pc[p] = "read_cache" /\ pc'[p] = "validate_cached") =>
            /\ cache.json.expiresIn > 0
            /\ cached'[p].needsRefresh = (cache.json.expiresIn < REFRESH_THRESHOLD)
       /\ (pc[p] = "validate_cached" /\ pc'[p] # "validate_cached"
             /\ accepted'[p] = cached[p].token) =>
            IF cached[p].needsRefresh /\ interactive[p]
              THEN /\ pc'[p] = "acq_read"
                   /\ caller'[p] = "background"
              ELSE /\ pc'[p] = "done"
                   /\ caller'[p] = "resolve"
                   /\ result'[p] = Success(cached[p].token, cached[p].graphToken)
                   /\ attempts'[p] = NoAttempt
                   /\ ~holds'[p]
                   /\ lockFile' = lockFile]_vars

\* an interactive resolveAuth has returned a cached token that has more than
\* five minutes left, and has started nothing
LongLivedHitReached ==
  \E p \in Procs :
    /\ pc[p] = "done"
    /\ caller[p] = "resolve"
    /\ interactive[p]
    /\ cached[p].kind = "hit"
    /\ ~cached[p].needsRefresh
    /\ result[p] = Success(cached[p].token, cached[p].graphToken)
    /\ attempts[p] = NoAttempt

\* ---- C33 ------------------------------------------------------------------------
\* C33: the background refresh of resolveAuth launches no browser with
\* headless=false, whatever its headless tryExtractToken returned
BackgroundStaysHeadless ==
  \A p \in Procs :
    caller[p] = "background" => ~(attempts[p].launched /\ ~headless[p])

\* ---- C34 ------------------------------------------------------------------------
\* C34: the release() of tryExtractToken removes the marker only if it is the
\* one its own acquireLock created: a marker that another process created is
\* left as it is
ReleaseSparesOthers ==
  [][\A p \in Procs :
       (/\ pc[p] \in {"ext_release", "catch_release"}
        /\ pc'[p] = "try_ret"
        /\ lockFile.exists
        /\ lockFile.owner # p) => lockFile' = lockFile]_vars

\* ---- C35 ------------------------------------------------------------------------
\* C35: the unlink of acquireLock (auth.ts:26) removes a marker only if the
\* marker that is there when it runs is older than LOCK_TIMEOUT: a marker
\* created since the read is left as it is
ReclaimSparesFresh ==
  [][\A p \in Procs :
       (/\ pc[p] = "acq_unlink"
        /\ pc'[p] # "acq_unlink"
        /\ lockFile.exists
        /\ ~IsStale(lockFile)) => lockFile' = lockFile]_vars

\* ---- C37 ------------------------------------------------------------------------
\* C37: a process whose tryExtractToken has a browser context open has been
\* given a Handle by acquireLock and has not called its release(): the
\* context is launched after the lock is taken and closed before it is
\* released, on the normal path and in the catch block
ContextInsideLock ==
  \A p \in Procs :
    (caller[p] # "keepalive" /\ context[p] = "open") =>
      /\ holds[p]
      /\ pc[p] \in SectionPcs \cup {"try_ret"}
      /\ attempts[p].launched

\* an error was thrown with the context open: the catch block is about to
\* close it, the Handle not yet released
CatchWithContextReached ==
  \E p \in Procs :
    /\ pc[p] = "catch_close"
    /\ context[p] = "open"
    /\ holds[p]

\* ---- C36 ------------------------------------------------------------------------
\* C36: when acquireLock returns none after its open(LOCK_FILE, 'wx') has
\* succeeded, also when fd.write or fd.close threw after it, the marker it
\* created is not on disk
NoneLeavesNoMarker ==
  \A p \in Procs :
    (Contended(p) /\ attempts[p].created) => ~(lockFile.exists /\ lockFile.owner = p)

\* ---- C38 ------------------------------------------------------------------------
\* an AuthResult is either a success with a token and no error, or a failure
\* with an error and no token
WellFormed(res) ==
  IF res.success
    THEN res.token # NoToken /\ res.error = "none"
    ELSE res.token = NoToken /\ res.graphToken = NoToken /\ res.error # "none"

\* C38: every result that resolveAuth returns is either a success with a
\* primary token and no error or a failure with an error and no token, also
\* when the cache file is a JSON object without a token member
OutcomeWellFormed ==
  \A p \in Procs :
    (caller[p] \in {"resolve", "background"} /\ result[p] \notin {NoResult, Raised}) =>
      WellFormed(result[p])

\* ---- C39 ------------------------------------------------------------------------
\* C39: getCachedToken returns a record only for a file whose JSON object has
\* a token and a numeric expiresAt later than now; an object without expiresAt
\* or with an expiresAt that is no number is read as no record
RecordNeedsExpiry ==
  [][\A p \in Procs :
       (pc[p] = "read_cache" /\ pc'[p] # "read_cache" /\ cached'[p].kind = "hit") =>
         /\ cache.kind = "json"
         /\ "token" \in DOMAIN cache.json
         /\ "expiresIn" \in DOMAIN cache.json
         /\ cache.json.expiresIn > 0]_vars

\* ---- C40 ------------------------------------------------------------------------
\* C40: a write of the cache file that begins while the record in the file is
\* unexpired writes an expiry that is no earlier than that record's, whoever
\* wrote the record and whoever writes now (keepalive loop, resolver, refresh)
ExpiryNeverDecreases ==
  [][\A p \in Procs :
       (/\ pc[p] \in {"set_cache", "refresh_open"}
        /\ pc'[p] \in {"set_cache_write", "refresh_write"}
        /\ cache.kind = "json"
        /\ "expiresIn" \in DOMAIN cache.json
        /\ cache.json.expiresIn > 0) =>
         writing'[p].json.expiresIn >= cache.json.expiresIn]_vars

====
